---- MODULE Spec2Model ----
(***************************************************************************)
(* A state-machine model of the duck-ui session store                      *)
(* (src/src/store/index.ts), of the connection page that drives it         *)
(* (src/src/pages/Connections.tsx) and of the file-import component        *)
(* (src/src/components/explorer/FileImporter.tsx).                         *)
(*                                                                         *)
(* The store is a single zustand object; every handler is an asynchronous  *)
(* task that runs without preemption between two awaits.  One action of    *)
(* the model is one such run: from the call (or from the resolution of the *)
(* promise the task awaits) to the next await (or to the return).          *)
(***************************************************************************)
EXTENDS Integers, Sequences, FiniteSets, TLC

----------------------------------------------------------------------------
(* Bounds of the model                                                     *)

\* distinct query texts ever submitted to executeQuery
MaxFresh == 16
\* random UUIDs drawn for tabs (crypto.randomUUID)
MaxUuid == 2
\* embedded backends booted (initializeWasmConnection calls)
MaxBoot == 2
\* handler calls in flight at the same time
MaxCalls == 2
\* files ever submitted to the import component
MaxFiles == 4
\* handleFileUpload runs in flight at once
MaxBatches == 2
\* entries the queue holds where a file is submitted more than once
MaxQueued == 2
\* tabs the tab sequence holds where tabs are moved to and from indices
\* out of range
MaxTabs == 3

----------------------------------------------------------------------------
(* Values                                                                  *)

\* index.ts:355, the history cap of updateHistory
HistoryCap == 15
\* FileImporter.tsx:60
MAX_CONCURRENT_UPLOADS == 3

\* JS null for a backend handle (db, connection); handles are 1, 2, ...
NullHandle == 0
\* JS null / undefined for the error string
NoError == "null"
\* JS undefined for an optional tabId argument
NoTab == ""
HomeId == "home"

Uuid(n) == "uuid" \o ToString(n)

\* ConnectionProvider / CurrentConnection, index.ts:27-49.  hostport stands
\* for "host and port are both set" (the only use the store makes of them
\* besides building the URL).
Descriptor(id, name, scope, hostport) ==
  [id |-> id, name |-> name, scope |-> scope, hostport |-> hostport]

\* index.ts:439-443 and 461-465
WasmDescriptor == Descriptor("WASM", "WASM", "WASM", FALSE)

\* currentConnection: null (index.ts:436)
NoConnection == Descriptor("", "", "null", FALSE)

\* index.ts:424-429 and 757-762
HomeTab == [id |-> HomeId, title |-> "Home", type |-> "home", content |-> "",
            result |-> <<>>]

Range(s) == {s[i] : i \in DOMAIN s}

\* Array.prototype.findIndex, 1-based; 0 for "not found" (-1 in JS)
findIndex(s, test(_)) ==
  LET hits == {i \in DOMAIN s : test(s[i])}
  IN  IF hits = {} THEN 0 ELSE CHOOSE i \in hits : \A j \in hits : i <= j

\* Array.prototype.slice(0, n)
slice0(s, n) == SubSeq(s, 1, IF Len(s) < n THEN Len(s) ELSE n)

----------------------------------------------------------------------------
(* State                                                                   *)

VARIABLES
  \* the store, index.ts:415-445
  db, connection, isInitialized, currentConnection, connectionList,
  databases, queryHistory, isExecuting, tabs, activeTabId, isLoading,
  error, isLoadingDbTablesFetch, isLoadingExternalConnection,
  \* the handler calls in flight
  calls,
  \* what the last completed executeQuery call gave its caller
  lastDone,
  \* the environment: embedded backends booted, handles released, tables
  booted, released, catalog,
  \* the import component, FileImporter.tsx:271-277, and its upload runs
  files, tableNames, importStates, isUploading, errors, batches, jobs,
  \* model counters: UUIDs drawn, query texts used, files submitted
  nUuid, nFresh, nFiles

storeVars == <<db, connection, isInitialized, currentConnection,
               connectionList, databases, queryHistory, isExecuting, tabs,
               activeTabId, isLoading, error, isLoadingDbTablesFetch,
               isLoadingExternalConnection>>
envVars == <<booted, released, catalog>>
importVars == <<files, tableNames, importStates, isUploading, errors,
                batches, jobs, nFiles>>
countVars == <<nUuid, nFresh>>
vars == <<storeVars, calls, lastDone, envVars, importVars, countVars>>

sessionVars == <<db, connection, isInitialized, currentConnection>>
tabVars == <<tabs, activeTabId>>
\* everything a tab operation leaves alone (besides the UUID counter)
tabFrame == <<sessionVars, connectionList, databases, queryHistory,
              isExecuting, isLoading, error, isLoadingDbTablesFetch,
              isLoadingExternalConnection, calls, lastDone, envVars,
              importVars, nFresh>>

----------------------------------------------------------------------------
(* Calls in flight                                                         *)

\* One slot of the pool of handler calls.  op names the handler, pc the
\* await it is suspended at; the other fields are the handler's locals:
\* its arguments (query, tabId, desc, table), what it read from the store before
\* suspending (cc, conn), the handle it booted (h), its result (res) and
\* the result it attached to a tab (shown).
Idle == [op |-> "idle", pc |-> "", query |-> 0, tabId |-> NoTab,
         desc |-> NoConnection, cc |-> NoConnection, conn |-> NullHandle,
         h |-> NullHandle, res |-> <<>>, shown |-> <<>>, table |-> ""]

CallIds == 1 .. MaxCalls

\* the lowest free slot: slots are interchangeable
FreeSlot(t) ==
  /\ calls[t].op = "idle"
  /\ \A u \in CallIds : u < t => calls[u].op # "idle"

NoCallInFlight == \A t \in CallIds : calls[t].op = "idle"

\* What the last completed executeQuery (or deleteTable) call produced: its arguments,
\* whether the query failed, whether the promise rejected (threw), the
\* value it resolved to (<<>> for undefined, <<r>> for a QueryResult r)
\* and the result it attached to a tab (<<>> when no tab has the id).
Done(op, query, tabId, failed, threw, ret, shown) ==
  [op |-> op, query |-> query, tabId |-> tabId, failed |-> failed,
   threw |-> threw, ret |-> ret, shown |-> shown]

NothingDone == Done("none", 0, NoTab, FALSE, FALSE, <<>>, <<>>)

----------------------------------------------------------------------------
(* Initial state: index.ts:415-445                                         *)

Init ==
  /\ db = NullHandle
  /\ connection = NullHandle
  /\ isInitialized = FALSE
  /\ currentConnection = NoConnection
  /\ connectionList = <<WasmDescriptor>>
  /\ databases = <<>>
  /\ queryHistory = <<>>
  /\ isExecuting = FALSE
  /\ tabs = <<HomeTab>>
  /\ activeTabId = HomeId
  /\ isLoading = FALSE
  /\ error = NoError
  /\ isLoadingDbTablesFetch = TRUE
  /\ isLoadingExternalConnection = FALSE
  /\ calls = [t \in CallIds |-> Idle]
  /\ lastDone = NothingDone
  /\ booted = 0
  /\ released = {}
  /\ catalog = {}
  /\ nUuid = 0
  /\ nFresh = 0
  /\ files = <<>>
  /\ tableNames = <<>>
  /\ importStates = <<>>
  /\ isUploading = FALSE
  /\ errors = {}
  /\ batches = <<>>
  /\ jobs = <<>>
  /\ nFiles = 0

----------------------------------------------------------------------------
(* Tabs: index.ts:607-689                                                  *)

TabIds == {tabs[i].id : i \in DOMAIN tabs}

\* every id a caller may hold: the home tab's and the UUIDs drawn so far
KnownTabIds == {HomeId} \cup {Uuid(n) : n \in 1 .. nUuid}

\* index.ts:608-619
createTab(type, title, content) ==
  /\ nUuid < MaxUuid
  /\ LET newTab == [id |-> Uuid(nUuid + 1), title |-> title, type |-> type,
                    content |-> content, result |-> <<>>]
     IN  /\ tabs' = Append(tabs, newTab)
         /\ activeTabId' = newTab.id
  /\ nUuid' = nUuid + 1
  /\ UNCHANGED <<tabFrame>>

\* index.ts:621-645
closeTab(tabId) ==
  LET Keep(tab) == tab.id # tabId
      updatedTabs == SelectSeq(tabs, Keep)
  IN  IF updatedTabs = <<>>
      THEN /\ nUuid < MaxUuid
           /\ tabs' = <<[id |-> Uuid(nUuid + 1), title |-> "Query 1",
                         type |-> "sql", content |-> "", result |-> <<>>]>>
           /\ activeTabId' = Uuid(nUuid + 1)
           /\ nUuid' = nUuid + 1
           /\ UNCHANGED <<tabFrame>>
      ELSE /\ tabs' = updatedTabs
           /\ activeTabId' = IF activeTabId = tabId
                             THEN updatedTabs[1].id ELSE activeTabId
           /\ UNCHANGED <<tabFrame, nUuid>>

\* index.ts:647-649
setActiveTab(tabId) ==
  /\ activeTabId' = tabId
  /\ UNCHANGED <<tabFrame, tabs, nUuid>>

\* index.ts:651-659
updateTabQuery(tabId, query) ==
  /\ tabs' = [i \in DOMAIN tabs |->
                IF tabs[i].id = tabId /\ tabs[i].type = "sql"
                THEN [tabs[i] EXCEPT !.content = query] ELSE tabs[i]]
  /\ UNCHANGED <<tabFrame, activeTabId, nUuid>>

\* index.ts:661-667
updateTabTitle(tabId, title) ==
  /\ tabs' = [i \in DOMAIN tabs |->
                IF tabs[i].id = tabId
                THEN [tabs[i] EXCEPT !.title = title] ELSE tabs[i]]
  /\ UNCHANGED <<tabFrame, activeTabId, nUuid>>

\* what [movedTab] = newTabs.splice(oldIndex, 1) leaves in movedTab when
\* oldIndex is past the end
UndefinedTab == [id |-> "undefined", title |-> "undefined",
                 type |-> "undefined", content |-> "undefined",
                 result |-> <<>>]

\* Array.prototype.splice(at, 1) on s, 0-based, at >= 0: the array left
spliceOut(s, at) ==
  IF at >= Len(s) THEN s
  ELSE SubSeq(s, 1, at) \o SubSeq(s, at + 2, Len(s))

\* Array.prototype.splice(at, 0, x) on s, 0-based, at >= 0
spliceIn(s, at, x) ==
  IF at >= Len(s) THEN Append(s, x)
  ELSE SubSeq(s, 1, at) \o <<x>> \o SubSeq(s, at + 1, Len(s))

\* index.ts:669-676, with 0-based indices as in the source
moveTabResult(oldTabs, oldIndex, newIndex) ==
  LET movedTab == IF oldIndex >= Len(oldTabs) THEN UndefinedTab
                  ELSE oldTabs[oldIndex + 1]
  IN  spliceIn(spliceOut(oldTabs, oldIndex), newIndex, movedTab)

moveTab(oldIndex, newIndex) ==
  /\ tabs' = moveTabResult(tabs, oldIndex, newIndex)
  /\ UNCHANGED <<tabFrame, activeTabId, nUuid>>

\* index.ts:678-689
closeAllTabs ==
  LET IsHome(tab) == tab.type = "home"
  IN  /\ tabs' = SelectSeq(tabs, IsHome)
      /\ activeTabId' = HomeId
      /\ UNCHANGED <<tabFrame, nUuid>>

----------------------------------------------------------------------------
(* Connection registry: index.ts:770-828                                   *)

ErrDuplicateName == "Failed to add connection: A connection with the name already exists."
ErrConnectionTest == "Failed to add connection: Connection test failed!"

\* everything a registry operation leaves alone
registryFrame == <<sessionVars, databases, queryHistory, isExecuting,
                   tabVars, isLoading, isLoadingDbTablesFetch, envVars,
                   importVars, countVars>>

\* a registry that looked for the descriptor's scope instead of its name
nameExistsByScope(list, name) == \E i \in DOMAIN list : list[i].scope = name

\* index.ts:776-780
nameExists(list, name) == \E i \in DOMAIN list : list[i].name = name

\* index.ts:771-808, from the call to the await of the probe (786) or, when
\* no probe is sent, to the return
addConnection(t, c) ==
  /\ FreeSlot(t)
  /\ isLoadingExternalConnection' = TRUE
  /\ IF nameExists(connectionList, c.name)
     THEN /\ error' = ErrDuplicateName
          /\ UNCHANGED lastDone
          /\ UNCHANGED <<connectionList, calls>>
     ELSE IF c.scope = "External"
     THEN /\ error' = NoError
          /\ calls' = [calls EXCEPT ![t] =
                         [Idle EXCEPT !.op = "addConnection", !.pc = "probe",
                                      !.desc = c]]
          /\ UNCHANGED <<connectionList, lastDone>>
     ELSE /\ error' = NoError
          /\ connectionList' = Append(connectionList, c)
          /\ UNCHANGED lastDone
          /\ UNCHANGED calls
  /\ UNCHANGED registryFrame

\* a registry that appended the descriptor whatever the probe answered
addConnectionUnprobed(t, ok) ==
  /\ calls[t].op = "addConnection"
  /\ calls[t].pc = "probe"
  /\ connectionList' = Append(connectionList, calls[t].desc)
  /\ error' = IF ok THEN error ELSE ErrConnectionTest
  /\ calls' = [calls EXCEPT ![t] = Idle]
  /\ UNCHANGED lastDone
  /\ UNCHANGED <<registryFrame, isLoadingExternalConnection>>

\* index.ts:786-807 with testExternalConnection (312-331): the probe's
\* response arrives; ok is response.ok (a rejected fetch is ok = FALSE)
addConnectionProbed(t, ok) ==
  /\ calls[t].op = "addConnection"
  /\ calls[t].pc = "probe"
  /\ IF ok
     THEN /\ connectionList' = Append(connectionList, calls[t].desc)
          /\ UNCHANGED error
     ELSE /\ error' = ErrConnectionTest
          /\ UNCHANGED connectionList
  /\ calls' = [calls EXCEPT ![t] = Idle]
  /\ UNCHANGED lastDone
  /\ UNCHANGED <<registryFrame, isLoadingExternalConnection>>

\* index.ts:810-818
updateConnection(c) ==
  /\ connectionList' = [i \in DOMAIN connectionList |->
                          IF connectionList[i].id = c.id
                          THEN c ELSE connectionList[i]]
  /\ UNCHANGED <<registryFrame, isLoadingExternalConnection, error, calls,
                 lastDone>>

\* index.ts:820-828
deleteConnection(id) ==
  LET Keep(c) == c.id # id
  IN  /\ connectionList' = SelectSeq(connectionList, Keep)
      /\ UNCHANGED <<registryFrame, isLoadingExternalConnection, error,
                     calls, lastDone>>

\* index.ts:897-901; 0 for undefined
getConnection(connectionId) ==
  LET HasId(c) == c.id = connectionId
  IN  findIndex(connectionList, HasId)

----------------------------------------------------------------------------
(* The embedded backend                                                    *)

\* index.ts:168-175: a handle is an AsyncDuckDBConnection, whose query is
\* always a function; only null fails the validation
validConnection(conn) == conn # NullHandle

\* a handle answers queries until it is closed
queryable(conn) == conn # NullHandle /\ conn \notin released

\* index.ts:365-405: the snapshot a handle's catalog gives
fetchWasmDatabases(conn) ==
  <<[name |-> "memory", tables |-> {tc[2] : tc \in {x \in catalog : x[1] = conn}}]>>

----------------------------------------------------------------------------
(* Schema refresh: index.ts:584-605                                        *)

ErrSchemaInvalid == "Failed to load schema: Database connection is not valid"
ErrSchemaQuery == "Failed to load schema: query failed"
ErrSchemaTable == "Failed to load schema: table query failed"

\* a refresh that left the snapshot alone with a Remote descriptor active
\* (no databases = [] at 590)
fetchStartKeepsSnapshot ==
  IF currentConnection'.scope = "External"
  THEN /\ error' = NoError
       /\ isLoadingDbTablesFetch' = FALSE
       /\ UNCHANGED databases
  ELSE IF ~validConnection(connection')
  THEN /\ error' = ErrSchemaInvalid
       /\ isLoadingDbTablesFetch' = FALSE
       /\ UNCHANGED databases
  ELSE /\ isLoadingDbTablesFetch' = TRUE
       /\ error' = NoError
       /\ UNCHANGED databases

\* 584-595, the part of fetchDatabasesAndTablesInfo that runs before its
\* only await (593).  It reads the store as its caller has just left it
\* (get() at 585), so the caller assigns currentConnection' and
\* connection' first.  With a Remote descriptor or without a handle it
\* runs to its end (595-604) without suspending.
fetchStart ==
  IF currentConnection'.scope = "External"
  THEN /\ databases' = <<>>
       /\ error' = NoError
       /\ isLoadingDbTablesFetch' = FALSE
  ELSE IF ~validConnection(connection')
  THEN /\ error' = ErrSchemaInvalid
       /\ isLoadingDbTablesFetch' = FALSE
       /\ UNCHANGED databases
  ELSE /\ isLoadingDbTablesFetch' = TRUE
       /\ error' = NoError
       /\ UNCHANGED databases

\* whether the refresh just started is suspended at 593
fetchSuspends ==
  currentConnection'.scope # "External" /\ validConnection(connection')

\* a refresh that emptied the snapshot when its query failed
fetchFinishClears(conn, ok) ==
  /\ ok => queryable(conn)
  /\ error' = IF ok THEN NoError ELSE ErrSchemaQuery
  /\ databases' = IF ok THEN fetchWasmDatabases(conn) ELSE <<>>
  /\ isLoadingDbTablesFetch' = FALSE

\* a refresh that never published what it fetched (no set at 595)
fetchFinishStale(conn, ok) ==
  /\ ok => queryable(conn)
  /\ error' = IF ok THEN NoError ELSE ErrSchemaQuery
  /\ UNCHANGED databases
  /\ isLoadingDbTablesFetch' = FALSE

\* 593-604, after the await: the snapshot is published or the error set
fetchFinish(conn, ok) ==
  /\ ok => queryable(conn)
  /\ IF ok
     THEN /\ databases' = fetchWasmDatabases(conn)
          /\ error' = NoError
     ELSE /\ error' = ErrSchemaQuery
          /\ UNCHANGED databases
  /\ isLoadingDbTablesFetch' = FALSE

\* a call of fetchDatabasesAndTablesInfo by the interface
fetchDatabasesAndTablesInfo(t) ==
  /\ FreeSlot(t)
  /\ UNCHANGED sessionVars
  /\ fetchStart
  /\ IF fetchSuspends
     THEN /\ calls' = [calls EXCEPT ![t] =
                         [Idle EXCEPT !.op = "fetchDatabasesAndTablesInfo",
                                      !.pc = "refresh", !.conn = connection]]
          /\ UNCHANGED lastDone
     ELSE /\ UNCHANGED lastDone
          /\ UNCHANGED calls
  /\ UNCHANGED <<connectionList, queryHistory, isExecuting, tabVars,
                 isLoading, isLoadingExternalConnection, envVars,
                 importVars, countVars>>

\* a refresh whose failure was rethrown to the call that awaits it, which
\* then fails
refreshedAborts(t, ok) ==
  /\ calls[t].pc = "refresh"
  /\ fetchFinish(calls[t].conn, ok)
  /\ isLoading' = IF calls[t].op \in {"setCurrentConnection", "deleteTable"}
                  THEN FALSE ELSE isLoading
  /\ lastDone' = IF calls[t].op = "executeQuery"
                  THEN Done("executeQuery", calls[t].query, calls[t].tabId,
                            ~ok, ~ok,
                            IF calls[t].tabId # NoTab \/ ~ok THEN <<>>
                            ELSE calls[t].res,
                            calls[t].shown)
                  ELSE IF calls[t].op = "deleteTable"
                  THEN Done("deleteTable", 0, NoTab, ~ok, ~ok, <<>>, <<>>)
                  ELSE lastDone
  /\ calls' = [calls EXCEPT ![t] = Idle]
  /\ UNCHANGED <<sessionVars, connectionList, queryHistory, isExecuting,
                 tabVars, isLoadingExternalConnection, envVars, importVars,
                 countVars>>

\* The refresh a call awaits resolves, and the call runs to its end:
\* initialize (467), executeQuery (507-509), deleteTable (698-699),
\* setCurrentConnection (880-881, 892-894) or the interface's own call.
refreshed(t, ok) ==
  /\ calls[t].pc = "refresh"
  /\ fetchFinish(calls[t].conn, ok)
  /\ isLoading' = IF calls[t].op \in {"setCurrentConnection", "deleteTable"}
                  THEN FALSE ELSE isLoading
  /\ lastDone' = IF calls[t].op = "executeQuery"
                  THEN Done("executeQuery", calls[t].query, calls[t].tabId,
                            FALSE, FALSE,
                            IF calls[t].tabId # NoTab THEN <<>>
                            ELSE calls[t].res,
                            calls[t].shown)
                  ELSE IF calls[t].op = "deleteTable"
                  THEN Done("deleteTable", 0, NoTab, FALSE, FALSE, <<>>, <<>>)
                  ELSE lastDone
  /\ calls' = [calls EXCEPT ![t] = Idle]
  /\ UNCHANGED <<sessionVars, connectionList, queryHistory, isExecuting,
                 tabVars, isLoadingExternalConnection, envVars, importVars,
                 countVars>>

\* the tables of the backend behind a handle
tablesOf(conn) == {tc[2] : tc \in {x \in catalog : x[1] = conn}}

\* index.ts:369-404 and 596-604: the enumeration of the databases
\* succeeded, and the introspection of one of the tables (its DESCRIBE at
\* 378 or its COUNT(*) at 388) rejects.  The rejection passes through the
\* two Promise.all (375, 369) and the await at 593 into the catch block,
\* as a failure of the enumeration does.
refreshedTableFailed(t) ==
  /\ calls[t].pc = "refresh"
  /\ queryable(calls[t].conn)
  /\ tablesOf(calls[t].conn) # {}
  /\ error' = ErrSchemaTable
  /\ isLoadingDbTablesFetch' = FALSE
  /\ isLoading' = IF calls[t].op \in {"setCurrentConnection", "deleteTable"}
                  THEN FALSE ELSE isLoading
  /\ lastDone' = IF calls[t].op = "executeQuery"
                  THEN Done("executeQuery", calls[t].query, calls[t].tabId,
                            FALSE, FALSE,
                            IF calls[t].tabId # NoTab THEN <<>>
                            ELSE calls[t].res,
                            calls[t].shown)
                  ELSE IF calls[t].op = "deleteTable"
                  THEN Done("deleteTable", 0, NoTab, FALSE, FALSE, <<>>, <<>>)
                  ELSE lastDone
  /\ calls' = [calls EXCEPT ![t] = Idle]
  /\ UNCHANGED <<sessionVars, connectionList, databases, queryHistory,
                 isExecuting, tabVars, isLoadingExternalConnection, envVars,
                 importVars, countVars>>

----------------------------------------------------------------------------
(* Session: index.ts:447-479, 742-768, 830-895                             *)

ErrInit == "Initialization failed"
ErrNotFound == "Failed to set current connection: Connection not found."
ErrNoHandle == "Failed to set current connection: Failed to establish a new connection."
ErrBoot == "Failed to set current connection: boot failed"
ErrSetup == "Failed to set current connection: setup query failed"

\* index.ts:448-453: from the call to the await of the boot
initialize(t) ==
  /\ FreeSlot(t)
  /\ IF isInitialized
     THEN /\ UNCHANGED lastDone
          /\ UNCHANGED <<isLoading, error, calls>>
     ELSE /\ isLoading' = TRUE
          /\ error' = NoError
          /\ calls' = [calls EXCEPT ![t] =
                         [Idle EXCEPT !.op = "initialize", !.pc = "boot"]]
          /\ UNCHANGED lastDone
  /\ UNCHANGED <<sessionVars, connectionList, databases, queryHistory,
                 isExecuting, tabVars, isLoadingDbTablesFetch,
                 isLoadingExternalConnection, envVars, importVars,
                 countVars>>

\* an initialize whose catch block left the handles alone (no db: null,
\* connection: null at 475-476)
initializeBootedKeepsHandle(t, ok) ==
  /\ calls[t].op = "initialize"
  /\ calls[t].pc = "boot"
  /\ IF ok
     THEN /\ booted < MaxBoot
          /\ booted' = booted + 1
          /\ db' = booted + 1
          /\ connection' = booted + 1
          /\ isInitialized' = TRUE
          /\ isLoading' = FALSE
          /\ currentConnection' = WasmDescriptor
          /\ fetchStart
          /\ calls' = [calls EXCEPT ![t].pc = "refresh",
                                    ![t].conn = booted + 1]
          /\ UNCHANGED lastDone
     ELSE /\ error' = ErrInit
          /\ isLoading' = FALSE
          /\ isInitialized' = FALSE
          /\ calls' = [calls EXCEPT ![t] = Idle]
          /\ UNCHANGED lastDone
          /\ UNCHANGED <<db, connection, currentConnection, databases,
                         isLoadingDbTablesFetch, booted>>
  /\ UNCHANGED <<connectionList, queryHistory, isExecuting, tabVars,
                 isLoadingExternalConnection, released, catalog,
                 importVars, countVars>>

\* index.ts:453-478 with initializeWasmConnection (290-307): the boot
\* resolves with a fresh handle (ok) or rejects
initializeBooted(t, ok) ==
  /\ calls[t].op = "initialize"
  /\ calls[t].pc = "boot"
  /\ IF ok
     THEN /\ booted < MaxBoot
          /\ booted' = booted + 1
          /\ db' = booted + 1
          /\ connection' = booted + 1
          /\ isInitialized' = TRUE
          /\ isLoading' = FALSE
          /\ currentConnection' = WasmDescriptor
          /\ fetchStart
          /\ calls' = [calls EXCEPT ![t].pc = "refresh",
                                    ![t].conn = booted + 1]
          /\ UNCHANGED lastDone
     ELSE /\ error' = ErrInit
          /\ isLoading' = FALSE
          /\ isInitialized' = FALSE
          /\ db' = NullHandle
          /\ connection' = NullHandle
          /\ calls' = [calls EXCEPT ![t] = Idle]
          /\ UNCHANGED lastDone
          /\ UNCHANGED <<currentConnection, databases,
                         isLoadingDbTablesFetch, booted>>
  /\ UNCHANGED <<connectionList, queryHistory, isExecuting, tabVars,
                 isLoadingExternalConnection, released, catalog,
                 importVars, countVars>>

\* a reset that kept the history and the tabs (no queryHistory, tabs and
\* activeTabId at 755-764)
cleanupResetKeepsWork ==
  /\ db' = NullHandle
  /\ connection' = NullHandle
  /\ isInitialized' = FALSE
  /\ databases' = <<>>
  /\ error' = NoError
  /\ currentConnection' = NoConnection
  /\ UNCHANGED <<queryHistory, tabs, activeTabId>>

\* index.ts:748-766, the reset in cleanup's finally block
cleanupReset ==
  /\ db' = NullHandle
  /\ connection' = NullHandle
  /\ isInitialized' = FALSE
  /\ databases' = <<>>
  /\ error' = NoError
  /\ queryHistory' = <<>>
  /\ tabs' = <<HomeTab>>
  /\ activeTabId' = HomeId
  /\ currentConnection' = NoConnection

\* index.ts:742-746: from the call to the first await; without a handle
\* there is none and the reset follows at once
cleanup(t) ==
  /\ FreeSlot(t)
  /\ IF connection # NullHandle \/ db # NullHandle
     THEN /\ calls' = [calls EXCEPT ![t] =
                         [Idle EXCEPT !.op = "cleanup",
                                      !.pc = IF connection # NullHandle
                                             THEN "close" ELSE "terminate",
                                      !.conn = connection, !.h = db]]
          /\ UNCHANGED <<sessionVars, databases, error, queryHistory,
                         tabVars, lastDone>>
     ELSE /\ cleanupReset
          /\ UNCHANGED lastDone
          /\ UNCHANGED calls
  /\ UNCHANGED <<connectionList, isExecuting, isLoading,
                 isLoadingDbTablesFetch, isLoadingExternalConnection,
                 envVars, importVars, countVars>>

\* index.ts:745-746: connection.close() resolves (the handle is released)
\* or rejects (the finally block resets and cleanup rejects)
cleanupClosed(t, ok) ==
  /\ calls[t].op = "cleanup"
  /\ calls[t].pc = "close"
  /\ IF ok /\ calls[t].h # NullHandle
     THEN /\ released' = released \cup {calls[t].conn}
          /\ calls' = [calls EXCEPT ![t].pc = "terminate"]
          /\ UNCHANGED <<sessionVars, databases, error, queryHistory,
                         tabVars, lastDone>>
     ELSE /\ released' = IF ok THEN released \cup {calls[t].conn}
                         ELSE released
          /\ cleanupReset
          /\ calls' = [calls EXCEPT ![t] = Idle]
          /\ UNCHANGED lastDone
  /\ UNCHANGED <<connectionList, isExecuting, isLoading,
                 isLoadingDbTablesFetch, isLoadingExternalConnection,
                 booted, catalog, importVars, countVars>>

\* index.ts:746-767: db.terminate() resolves or rejects; either way the
\* finally block resets the session
cleanupTerminated(t, ok) ==
  /\ calls[t].op = "cleanup"
  /\ calls[t].pc = "terminate"
  /\ released' = IF ok THEN released \cup {calls[t].h} ELSE released
  /\ cleanupReset
  /\ calls' = [calls EXCEPT ![t] = Idle]
  /\ UNCHANGED lastDone
  /\ UNCHANGED <<connectionList, isExecuting, isLoading,
                 isLoadingDbTablesFetch, isLoadingExternalConnection,
                 booted, catalog, importVars, countVars>>

\* index.ts:864-884, reached with the handle the call settled on
\* (newConnection): the descriptor becomes the active one and the schema is
\* refreshed, or, without a handle, the call fails.  desc is the provider
\* found at 833.
connectWith(t, desc, newConnection) ==
  IF newConnection # NullHandle
  THEN /\ connection' = newConnection
       /\ currentConnection' = desc
       /\ fetchStart
       /\ IF fetchSuspends
          THEN /\ isLoading' = FALSE
               /\ calls' = [calls EXCEPT ![t] =
                              [Idle EXCEPT !.op = "setCurrentConnection",
                                           !.pc = "refresh", !.desc = desc,
                                           !.conn = newConnection]]
               /\ UNCHANGED lastDone
          ELSE /\ isLoading' = FALSE
               /\ calls' = [calls EXCEPT ![t] = Idle]
               /\ UNCHANGED lastDone
  ELSE /\ error' = ErrNoHandle
       /\ isLoading' = FALSE
       /\ calls' = [calls EXCEPT ![t] = Idle]
       /\ UNCHANGED lastDone
       /\ UNCHANGED <<connection, currentConnection, databases,
                      isLoadingDbTablesFetch>>

\* index.ts:830-863: from the call to the await of the boot (842) or, when
\* nothing is booted, on to 864-894
setCurrentConnection(t, connectionId) ==
  /\ FreeSlot(t)
  /\ LET found == getConnection(connectionId)
         connectionProvider == connectionList[found]
     IN  IF found = 0
         THEN /\ error' = ErrNotFound
              /\ isLoading' = FALSE
              /\ UNCHANGED lastDone
              /\ UNCHANGED <<sessionVars, databases,
                             isLoadingDbTablesFetch, calls>>
         ELSE IF connectionProvider.scope = "WASM" /\ ~isInitialized
         THEN /\ isLoading' = TRUE
              /\ calls' = [calls EXCEPT ![t] =
                             [Idle EXCEPT !.op = "setCurrentConnection",
                                          !.pc = "boot",
                                          !.desc = connectionProvider]]
              /\ UNCHANGED <<sessionVars, databases, error,
                             isLoadingDbTablesFetch, lastDone>>
         ELSE /\ UNCHANGED <<db, isInitialized>>
              /\ connectWith(t, connectionProvider, connection)
  /\ UNCHANGED <<connectionList, queryHistory, isExecuting, tabVars,
                 isLoadingExternalConnection, envVars, importVars,
                 countVars>>

\* index.ts:842-854: the boot resolves with a fresh handle, which is
\* installed before the setup queries are awaited (850), or rejects
setCurrentConnectionBooted(t, ok) ==
  /\ calls[t].op = "setCurrentConnection"
  /\ calls[t].pc = "boot"
  /\ IF ok
     THEN /\ booted < MaxBoot
          /\ booted' = booted + 1
          /\ db' = booted + 1
          /\ connection' = booted + 1
          /\ isInitialized' = TRUE
          /\ calls' = [calls EXCEPT ![t].pc = "setup", ![t].h = booted + 1]
          /\ UNCHANGED <<error, isLoading, lastDone>>
     ELSE /\ error' = ErrBoot
          /\ isLoading' = FALSE
          /\ calls' = [calls EXCEPT ![t] = Idle]
          /\ UNCHANGED lastDone
          /\ UNCHANGED <<db, connection, isInitialized, booted>>
  /\ UNCHANGED <<currentConnection, connectionList, databases,
                 queryHistory, isExecuting, tabVars,
                 isLoadingDbTablesFetch, isLoadingExternalConnection,
                 released, catalog, importVars, countVars>>

\* index.ts:850-894: the setup queries on the new handle resolve, and the
\* call goes on with that handle, or one rejects
setCurrentConnectionSetUp(t, ok) ==
  /\ calls[t].op = "setCurrentConnection"
  /\ calls[t].pc = "setup"
  /\ ok => queryable(calls[t].h)
  /\ IF ok
     THEN connectWith(t, calls[t].desc, calls[t].h)
     ELSE /\ error' = ErrSetup
          /\ isLoading' = FALSE
          /\ calls' = [calls EXCEPT ![t] = Idle]
          /\ UNCHANGED lastDone
          /\ UNCHANGED <<connection, currentConnection, databases,
                         isLoadingDbTablesFetch>>
  /\ UNCHANGED <<db, isInitialized, connectionList, queryHistory,
                 isExecuting, tabVars, isLoadingExternalConnection,
                 envVars, importVars, countVars>>

----------------------------------------------------------------------------
(* Query texts and results                                                 *)

\* The text of query q, as a sequence of characters.  Queries 1 and 2 are
\* data-definition statements on a table t, with and without leading
\* white space and in either case; query 3 reads t; the others select a
\* number.
QueryText(q) ==
  IF q = 1 THEN <<"C", "R", "E", "A", "T", "E", " ", "t">>
  ELSE IF q = 2 THEN <<" ", "d", "r", "o", "p", " ", "t">>
  ELSE IF q = 3 THEN <<"S", "E", "L", "E", "C", "T", " ", "t">>
  ELSE <<"S", "E", "L", "E", "C", "T", " ", ToString(q)>>

IsSpace(c) == c \in {" ", "\t", "\n"}

\* String.prototype.trim
RECURSIVE trimStart(_)
trimStart(text) ==
  IF text # <<>> /\ IsSpace(Head(text)) THEN trimStart(Tail(text)) ELSE text

RECURSIVE trimEnd(_)
trimEnd(text) ==
  IF text # <<>> /\ IsSpace(text[Len(text)])
  THEN trimEnd(SubSeq(text, 1, Len(text) - 1)) ELSE text

trim(text) == trimEnd(trimStart(text))

\* the letters the keywords are written with, folded to upper case (the
\* regular expression's i flag)
toUpper(c) ==
  CASE c = "a" -> "A" [] c = "c" -> "C" [] c = "d" -> "D" [] c = "e" -> "E"
    [] c = "h" -> "H" [] c = "l" -> "L" [] c = "o" -> "O" [] c = "p" -> "P"
    [] c = "r" -> "R" [] c = "t" -> "T" [] OTHER -> c

DdlKeywords == {<<"C", "R", "E", "A", "T", "E">>, <<"A", "L", "T", "E", "R">>,
                <<"D", "R", "O", "P">>, <<"A", "T", "T", "A", "C", "H">>}

startsWithIgnoreCase(text, word) ==
  /\ Len(text) >= Len(word)
  /\ \A i \in DOMAIN word : toUpper(text[i]) = word[i]

\* a test on the text as it was typed (no trim at 506)
isDdlUntrimmed(q) ==
  \E word \in DdlKeywords : startsWithIgnoreCase(QueryText(q), word)

\* index.ts:506: /^(CREATE|ALTER|DROP|ATTACH)/i.test(query.trim())
isDdl(q) == \E word \in DdlKeywords : startsWithIgnoreCase(trim(QueryText(q)), word)

\* what the statement does to the tables of the backend it runs on
runOn(conn, q) ==
  IF q = 1 THEN catalog \cup {<<conn, "t">>}
  ELSE IF q = 2 THEN catalog \ {<<conn, "t">>}
  ELSE catalog

\* QueryResult, index.ts:74-80; error is NoError when the key is absent
QueryResult(columns, columnTypes, data, rowCount, err) ==
  [columns |-> columns, columnTypes |-> columnTypes, data |-> data,
   rowCount |-> rowCount, error |-> err]

\* index.ts:513-519
errorResult(errorMessage) == QueryResult(<<>>, <<>>, <<>>, 0, errorMessage)

\* What the embedded backend answers: an Arrow table, given by its schema
\* fields and its rows (each a record of the fields' values).
ArrowTable(q) ==
  IF isDdl(q)
  THEN [fields |-> <<>>, rows |-> <<>>, numRows |-> 0]
  ELSE [fields |-> <<[name |-> "x", type |-> "Int32"]>>,
        rows |-> <<[x |-> 1]>>, numRows |-> 1]

\* index.ts:217-251 (no temporal column in the tables above, so that
\* 226-236 leave every value as it is)
resultToJSON(result) ==
  QueryResult([i \in DOMAIN result.fields |-> result.fields[i].name],
              [i \in DOMAIN result.fields |-> result.fields[i].type],
              result.rows, result.numRows, NoError)

\* What the remote endpoint answers with a 2xx status: the body, which
\* parses as JSON or not, with meta and data arrays or without.
GoodEnvelope == [parses |-> TRUE, hasMeta |-> TRUE, hasData |-> TRUE,
                 meta |-> <<[name |-> "x", type |-> "Int32"]>>,
                 data |-> <<<<1>>>>, rows |-> 1]
NoMetaEnvelope == [GoodEnvelope EXCEPT !.hasMeta = FALSE, !.meta = <<>>]
NotJsonEnvelope == [GoodEnvelope EXCEPT !.parses = FALSE, !.hasMeta = FALSE,
                    !.hasData = FALSE, !.meta = <<>>, !.data = <<>>,
                    !.rows = 0]
Envelopes == {GoodEnvelope, NoMetaEnvelope, NotJsonEnvelope}

\* index.ts:180-190: whether rawResultToJSON throws
malformed(rawResult) ==
  ~rawResult.parses \/ ~rawResult.hasMeta \/ ~rawResult.hasData

\* the value JavaScript reads past the end of an array (row[index], 196);
\* the values of the rows are positive
Undefined == -1

\* a conversion that gave a row a key for each of its values only (no
\* loop over the columns at 195)
rawResultToJSONByRow(rawResult) ==
  LET columns == [i \in DOMAIN rawResult.meta |-> rawResult.meta[i].name]
      columnTypes == [i \in DOMAIN rawResult.meta |-> rawResult.meta[i].type]
      data == [r \in DOMAIN rawResult.data |->
                 [c \in {columns[i] : i \in DOMAIN columns
                                          \cap DOMAIN rawResult.data[r]} |->
                    LET Is(i) == columns[i] = c /\ i \in DOMAIN rawResult.data[r]
                        last == CHOOSE i \in DOMAIN columns :
                                  Is(i) /\ \A j \in DOMAIN columns : Is(j) => j <= i
                    IN  rawResult.data[r][last]]]
  IN  QueryResult(columns, columnTypes, data,
                  IF rawResult.rows # 0 THEN rawResult.rows ELSE Len(data),
                  NoError)

\* index.ts:191-205
rawResultToJSON(rawResult) ==
  LET columns == [i \in DOMAIN rawResult.meta |-> rawResult.meta[i].name]
      columnTypes == [i \in DOMAIN rawResult.meta |-> rawResult.meta[i].type]
      data == [r \in DOMAIN rawResult.data |->
                 [c \in Range(columns) |->
                    LET Is(i) == columns[i] = c
                        \* the last column of that name wins (196)
                        last == CHOOSE i \in DOMAIN columns :
                                  Is(i) /\ \A j \in DOMAIN columns : Is(j) => j <= i
                    IN  IF last \in DOMAIN rawResult.data[r]
                        THEN rawResult.data[r][last] ELSE Undefined]]
  IN  QueryResult(columns, columnTypes, data,
                  IF rawResult.rows # 0 THEN rawResult.rows ELSE Len(data),
                  NoError)

----------------------------------------------------------------------------
(* History: index.ts:337-356                                               *)

\* a string that JavaScript takes for true (346: errorMsg ? ... : ...)
truthy(str) == str # NoError /\ str # ""

\* a ledger that kept every entry (no slice at 355)
updateHistoryUncapped(currentHistory, query, errorMsg) ==
  LET newItem == [query |-> query,
                  error |-> IF truthy(errorMsg) THEN errorMsg ELSE NoError]
      Other(item) == item.query # query
  IN  <<newItem>> \o SelectSeq(currentHistory, Other)

\* a ledger that put every run in front without looking for its text
\* (no findIndex at 348-354)
updateHistoryNoDedup(currentHistory, query, errorMsg) ==
  LET newItem == [query |-> query,
                  error |-> IF truthy(errorMsg) THEN errorMsg ELSE NoError]
  IN  slice0(<<newItem>> \o currentHistory, HistoryCap)

\* index.ts:337-356; the entry's id and timestamp are left out
updateHistory(currentHistory, query, errorMsg) ==
  LET newItem == [query |-> query,
                  error |-> IF truthy(errorMsg) THEN errorMsg ELSE NoError]
      Same(item) == item.query = query
      existingIndex == findIndex(currentHistory, Same)
      rest == IF existingIndex # 0
              THEN SubSeq(currentHistory, 1, existingIndex - 1)
                   \o SubSeq(currentHistory, existingIndex + 1,
                             Len(currentHistory))
              ELSE currentHistory
      newHistory == <<newItem>> \o rest
  IN  slice0(newHistory, HistoryCap)

ErrDeleteTable == "Failed to delete table"

\* what no part of deleteTable writes
deleteFrame == <<sessionVars, connectionList, queryHistory, isExecuting,
                 tabVars, isLoadingExternalConnection, booted, released,
                 importVars, countVars>>

\* index.ts:691-697 (and 701-708): from the call to the await of the DROP
\* statement, or, without a handle, through the catch block, which
\* rethrows
deleteTable(t, tableName) ==
  /\ FreeSlot(t)
  /\ IF ~validConnection(connection)
     THEN /\ isLoading' = FALSE
          /\ error' = ErrDeleteTable
          /\ lastDone' = Done("deleteTable", 0, NoTab, TRUE, TRUE, <<>>, <<>>)
          /\ UNCHANGED calls
     ELSE /\ isLoading' = TRUE
          /\ calls' = [calls EXCEPT ![t] =
                         [Idle EXCEPT !.op = "deleteTable", !.pc = "drop",
                                      !.table = tableName,
                                      !.conn = connection]]
          /\ UNCHANGED <<error, lastDone>>
  /\ UNCHANGED <<deleteFrame, catalog, databases, isLoadingDbTablesFetch>>

\* index.ts:695-708: the DROP statement resolves (DROP TABLE IF EXISTS, so
\* that a table that is not there is no failure) and the schema is
\* refreshed, or it rejects and the catch block rethrows
deleteTableDropped(t, ok) ==
  /\ calls[t].op = "deleteTable"
  /\ calls[t].pc = "drop"
  /\ ok => queryable(calls[t].conn)
  /\ UNCHANGED deleteFrame
  /\ IF ok
     THEN /\ catalog' = catalog \ {<<calls[t].conn, calls[t].table>>}
          /\ fetchStart
          /\ IF fetchSuspends
             THEN /\ calls' = [calls EXCEPT ![t].pc = "refresh",
                                            ![t].conn = connection]
                  /\ UNCHANGED <<isLoading, lastDone>>
             ELSE /\ isLoading' = FALSE
                  /\ calls' = [calls EXCEPT ![t] = Idle]
                  /\ lastDone' = Done("deleteTable", 0, NoTab, FALSE, FALSE,
                                      <<>>, <<>>)
     ELSE /\ isLoading' = FALSE
          /\ error' = ErrDeleteTable
          /\ lastDone' = Done("deleteTable", 0, NoTab, TRUE, TRUE, <<>>, <<>>)
          /\ calls' = [calls EXCEPT ![t] = Idle]
          /\ UNCHANGED <<catalog, databases, isLoadingDbTablesFetch>>

\* index.ts:711-713
clearHistory ==
  /\ queryHistory' = <<>>
  /\ UNCHANGED <<sessionVars, connectionList, databases, isExecuting,
                 tabVars, isLoading, error, isLoadingDbTablesFetch,
                 isLoadingExternalConnection, calls, lastDone, envVars,
                 importVars, countVars>>

----------------------------------------------------------------------------
(* Query execution: index.ts:481-533 and 259-285                           *)

ErrInvalidConnection == "Database connection is not valid"
ErrQuery == "query failed"
ErrHostPort == "Host and port must be defined for external connections."
ErrHttp == "HTTP error!"
ErrParse == "Failed to parse raw result"

\* what no part of executeQuery writes
executeFrame == <<sessionVars, connectionList, activeTabId, isLoading,
                  isLoadingExternalConnection, booted, released,
                  importVars, nUuid>>

\* a map that gave the result to every tab (no test of tab.id at 501)
withResultOnAll(oldTabs, tabId, result) ==
  [i \in DOMAIN oldTabs |-> [oldTabs[i] EXCEPT !.result = <<result>>]]

\* index.ts:500-502 and 526-528
withResult(oldTabs, tabId, result) ==
  [i \in DOMAIN oldTabs |->
     IF oldTabs[i].id = tabId
     THEN [oldTabs[i] EXCEPT !.result = <<result>>] ELSE oldTabs[i]]

\* the result the map at 500-502 or 526-528 leaves on a tab, if on any
attached(oldTabs, tabId, result) ==
  IF \E i \in DOMAIN oldTabs : oldTabs[i].id = tabId
  THEN <<result>> ELSE <<>>

\* a catch block that recorded the failure in the history only (no error
\* at 530)
executeFailedQuietly(t, query, tabId, errorMessage) ==
  /\ queryHistory' = updateHistory(queryHistory, query, errorMessage)
  /\ tabs' = withResult(tabs, tabId, errorResult(errorMessage))
  /\ isExecuting' = FALSE
  /\ error' = NoError
  /\ calls' = [calls EXCEPT ![t] = Idle]
  /\ lastDone' = Done("executeQuery", query, tabId, TRUE, FALSE, <<>>,
                      attached(tabs, tabId, errorResult(errorMessage)))
  /\ UNCHANGED <<databases, isLoadingDbTablesFetch>>

\* index.ts:510-532, the catch block: nothing is returned
executeFailed(t, query, tabId, errorMessage) ==
  /\ queryHistory' = updateHistory(queryHistory, query, errorMessage)
  /\ tabs' = withResult(tabs, tabId, errorResult(errorMessage))
  /\ isExecuting' = FALSE
  /\ error' = errorMessage
  /\ calls' = [calls EXCEPT ![t] = Idle]
  /\ lastDone' = Done("executeQuery", query, tabId, TRUE, FALSE, <<>>,
                      attached(tabs, tabId, errorResult(errorMessage)))
  /\ UNCHANGED <<databases, isLoadingDbTablesFetch>>

\* index.ts:497-509
executeSucceeded(t, query, tabId, queryResult) ==
  /\ queryHistory' = updateHistory(queryHistory, query, NoError)
  /\ tabs' = withResult(tabs, tabId, queryResult)
  /\ isExecuting' = FALSE
  /\ IF isDdl(query)
     THEN /\ UNCHANGED sessionVars
          /\ fetchStart
          /\ IF fetchSuspends
             THEN /\ calls' = [calls EXCEPT ![t] =
                                 [Idle EXCEPT !.op = "executeQuery",
                                              !.pc = "refresh",
                                              !.query = query,
                                              !.tabId = tabId,
                                              !.conn = connection,
                                              !.res = <<queryResult>>,
                                              !.shown =
                                                attached(tabs, tabId,
                                                         queryResult)]]
                  /\ UNCHANGED lastDone
             ELSE /\ calls' = [calls EXCEPT ![t] = Idle]
                  /\ lastDone' = Done("executeQuery", query, tabId,
                                      FALSE, FALSE,
                                      IF tabId # NoTab THEN <<>>
                                      ELSE <<queryResult>>,
                                      attached(tabs, tabId, queryResult))
     ELSE /\ calls' = [calls EXCEPT ![t] = Idle]
          /\ lastDone' = Done("executeQuery", query, tabId, FALSE, FALSE,
                              IF tabId # NoTab THEN <<>> ELSE <<queryResult>>,
                              attached(tabs, tabId, queryResult))
          /\ UNCHANGED <<error, databases, isLoadingDbTablesFetch>>

\* the query text is one of the MaxFresh texts; nFresh is the highest one
\* submitted so far
submitQuery(query) ==
  /\ query \in 1 .. MaxFresh
  /\ nFresh' = IF query > nFresh THEN query ELSE nFresh

\* an executeQuery that ran on the embedded handle whenever the store holds
\* one, whatever the scope of the active descriptor (no test at 487)
executeQueryOnHandle(t, query, tabId) ==
  /\ FreeSlot(t)
  /\ submitQuery(query)
  /\ IF ~validConnection(connection)
     THEN executeFailed(t, query, tabId, ErrInvalidConnection)
     ELSE /\ isExecuting' = TRUE
          /\ error' = NoError
          /\ calls' = [calls EXCEPT ![t] =
                         [Idle EXCEPT !.op = "executeQuery",
                                      !.pc = "query", !.query = query,
                                      !.tabId = tabId,
                                      !.cc = currentConnection,
                                      !.conn = connection]]
          /\ UNCHANGED <<queryHistory, tabs, databases,
                         isLoadingDbTablesFetch, lastDone>>
  /\ UNCHANGED <<executeFrame, catalog>>

\* index.ts:482-494 (and 263-265): from the call to the await of the
\* backend (494) or of the HTTP response (269), or, when the call fails
\* before it reaches one, through the catch block to its end
executeQuery(t, query, tabId) ==
  /\ FreeSlot(t)
  /\ submitQuery(query)
  /\ IF currentConnection.scope = "External"
     THEN IF ~currentConnection.hostport
          THEN executeFailed(t, query, tabId, ErrHostPort)
          ELSE /\ isExecuting' = TRUE
               /\ error' = NoError
               /\ calls' = [calls EXCEPT ![t] =
                              [Idle EXCEPT !.op = "executeQuery",
                                           !.pc = "fetch", !.query = query,
                                           !.tabId = tabId,
                                           !.cc = currentConnection,
                                           !.conn = connection]]
               /\ UNCHANGED <<queryHistory, tabs, databases,
                              isLoadingDbTablesFetch, lastDone>>
     ELSE IF ~validConnection(connection)
          THEN executeFailed(t, query, tabId, ErrInvalidConnection)
          ELSE /\ isExecuting' = TRUE
               /\ error' = NoError
               /\ calls' = [calls EXCEPT ![t] =
                              [Idle EXCEPT !.op = "executeQuery",
                                           !.pc = "query", !.query = query,
                                           !.tabId = tabId,
                                           !.cc = currentConnection,
                                           !.conn = connection]]
               /\ UNCHANGED <<queryHistory, tabs, databases,
                              isLoadingDbTablesFetch, lastDone>>
  /\ UNCHANGED <<executeFrame, catalog>>

\* index.ts:494-509: the embedded backend answers the query (ok) or
\* rejects it; a released handle rejects every query
executeQueryAnswered(t, ok) ==
  /\ calls[t].op = "executeQuery"
  /\ calls[t].pc = "query"
  /\ ok => queryable(calls[t].conn)
  /\ IF ok
     THEN /\ catalog' = runOn(calls[t].conn, calls[t].query)
          /\ executeSucceeded(t, calls[t].query, calls[t].tabId,
                              resultToJSON(ArrowTable(calls[t].query)))
     ELSE /\ executeFailed(t, calls[t].query, calls[t].tabId, ErrQuery)
          /\ UNCHANGED catalog
  /\ UNCHANGED <<executeFrame, nFresh>>

\* the answers of the remote endpoint: a status and, with a 2xx status, a
\* body
HttpResponses == {[ok |-> FALSE, body |-> NotJsonEnvelope]}
                   \cup {[ok |-> TRUE, body |-> e] : e \in Envelopes}

\* index.ts:269-284 and 497-509: the remote endpoint responds (a rejected
\* fetch is taken as a response that is not ok)
executeQueryResponded(t, response) ==
  /\ calls[t].op = "executeQuery"
  /\ calls[t].pc = "fetch"
  /\ IF ~response.ok
     THEN executeFailed(t, calls[t].query, calls[t].tabId, ErrHttp)
     ELSE IF malformed(response.body)
     THEN executeFailed(t, calls[t].query, calls[t].tabId, ErrParse)
     ELSE executeSucceeded(t, calls[t].query, calls[t].tabId,
                           rawResultToJSON(response.body))
  /\ UNCHANGED <<executeFrame, catalog, nFresh>>

----------------------------------------------------------------------------
(* The import component: FileImporter.tsx:266-543                          *)

\* A file the user submits: its name, its extension and whether its size
\* is over MAX_FILE_SIZE (52).  The files that pass validateFile are
\* numbered; file 2 is a DuckDB database, the others hold rows.
File(name, ext, oversized) ==
  [name |-> name, ext |-> ext, oversized |-> oversized]

ValidFile(n) == File(n, IF n = 2 THEN "duckdb" ELSE "csv", FALSE)
UnsupportedFile == File(0, "exe", FALSE)
OversizedFile == File(0, "csv", TRUE)

\* FileImporter.tsx:53-59
SUPPORTED_FILE_EXTENSIONS == {"csv", "json", "parquet", "arrow", "duckdb"}

ErrUnsupported == "Unsupported file type"
ErrOversized == "File exceeds maximum size"
ErrNameEmpty == "Table name cannot be empty"
ErrNameChars == "Table name can only contain letters, numbers, and underscores"
ErrRead == "file could not be read"
ErrNotInitialized == "Import failed: Database not initialized"
ErrImport == "Import failed: backend error"

\* an UploadError (its id is left out)
UploadError(file, message) == [file |-> file, message |-> message]

validateFileByType(file) ==
  IF file.ext \notin SUPPORTED_FILE_EXTENSIONS
  THEN {UploadError(file.name, ErrUnsupported)} ELSE {}

\* FileImporter.tsx:289-317
validateFile(file) ==
  (IF file.ext \notin SUPPORTED_FILE_EXTENSIONS
   THEN {UploadError(file.name, ErrUnsupported)} ELSE {})
  \cup (IF file.oversized
        THEN {UploadError(file.name, ErrOversized)} ELSE {})

\* FileImporter.tsx:359-362: the table name proposed for a file
proposedTableName(name) == <<"f", ToString(name)>>

\* an object spread {...f, ...g} of two records keyed by file name
spread(f, g) ==
  [k \in DOMAIN f \cup DOMAIN g |-> IF k \in DOMAIN g THEN g[k] ELSE f[k]]

\* delete obj[key]
without(f, key) == [k \in DOMAIN f \ {key} |-> f[k]]

\* FileImporter.tsx:319-330 (and 535-542): the job state of fileName
\* after the partial state is spread over it; error "keep" stands for a
\* partial state without the error key
updateImportState(states, fileName, status, err) ==
  LET prev == IF fileName \in DOMAIN states THEN states[fileName]
              ELSE [status |-> "undefined", error |-> NoError]
      next == [status |-> status,
               error |-> IF err = "keep" THEN prev.error ELSE err]
  IN  spread(states, [k \in {fileName} |-> next])

\* everything of the store and its environment
importFrame == <<storeVars, calls, lastDone, envVars, countVars>>

\* FileImporter.tsx:332-380
onFileChange(newFiles) ==
  LET Valid(file) == validateFile(file) = {}
      validFiles == SelectSeq(newFiles, Valid)
      newErrors == UNION {validateFile(newFiles[i]) : i \in DOMAIN newFiles}
      names == {validFiles[i].name : i \in DOMAIN validFiles}
  IN  /\ errors' = newErrors
      /\ files' = files \o validFiles
      /\ tableNames' = spread(tableNames,
                              [k \in names |-> proposedTableName(k)])
      /\ importStates' = spread(importStates,
                                [k \in names |->
                                   [status |-> "pending", error |-> NoError]])
      /\ nFiles' = IF names = {} THEN nFiles
                   ELSE LET top == CHOOSE k \in names : \A l \in names : l <= k
                        IN  IF top > nFiles THEN top ELSE nFiles
      /\ UNCHANGED <<isUploading, batches, jobs, importFrame>>

\* FileImporter.tsx:628-633: the user types a table name for a file of the
\* queue
onTableNameChange(fileName, text) ==
  /\ tableNames' = spread(tableNames, [k \in {fileName} |-> text])
  /\ UNCHANGED <<files, importStates, isUploading, errors, batches, jobs,
                 nFiles, importFrame>>

\* FileImporter.tsx:506-509 (no AbortController is ever created, so that
\* 507 does nothing)
handleCancelUpload ==
  /\ isUploading' = FALSE
  /\ UNCHANGED <<files, tableNames, importStates, errors, batches, jobs,
                 nFiles, importFrame>>

\* FileImporter.tsx:511-532
removeFile(fileName) ==
  LET Keep(file) == file.name # fileName
  IN  /\ files' = SelectSeq(files, Keep)
      /\ tableNames' = without(tableNames, fileName)
      /\ errors' = {e \in errors : e.file # fileName}
      /\ importStates' = without(importStates, fileName)
      /\ UNCHANGED <<isUploading, batches, jobs, nFiles, importFrame>>

\* a retry that leaves the error of the failed attempt in place
retryFileUploadKeepsError(fileName) ==
  /\ importStates' = updateImportState(importStates, fileName, "pending",
                                       "keep")
  /\ UNCHANGED <<files, tableNames, isUploading, errors, batches, jobs,
                 nFiles, importFrame>>

\* FileImporter.tsx:534-543
retryFileUpload(fileName) ==
  /\ importStates' = updateImportState(importStates, fileName, "pending",
                                       NoError)
  /\ UNCHANGED <<files, tableNames, isUploading, errors, batches, jobs,
                 nFiles, importFrame>>

\* The characters of the model's table names that the pattern of 126-133
\* accepts (a blank and a hyphen are not among them).
NameChars == {"a", "b", "f", "t", "T", "_"} \cup {ToString(d) : d \in 0 .. 9}

\* FileImporter.tsx:126-133, tableNameSchema.parse: "" when the text
\* passes, the message of the first check that fails otherwise
tableNameIssue(text) ==
  IF trim(text) = <<>> THEN ErrNameEmpty
  ELSE IF \E i \in DOMAIN trim(text) : trim(text)[i] \notin NameChars
  THEN ErrNameChars
  ELSE ""

\* the text as the one string the backend sees
RECURSIVE asString(_)
asString(text) ==
  IF text = <<>> THEN "" ELSE Head(text) \o asString(Tail(text))

\* One callback of files.map (426-483) in flight: the batch it belongs to,
\* its file and table name, the await it is suspended at (pc), the handle
\* importFile read (conn, index.ts:544), the handle the refresh it awaits
\* read (rconn, index.ts:585) and the error importFile is about to throw
\* (failure, NoError when it is about to return).
Job(batch, file, tableName) ==
  [batch |-> batch, name |-> file.name, ext |-> file.ext,
   tableName |-> tableName, pc |-> "read", conn |-> NullHandle,
   rconn |-> NullHandle, failure |-> NoError]

\* FileImporter.tsx:284-287
allFilesSuccess ==
  /\ files # <<>>
  /\ \A i \in DOMAIN files :
       /\ files[i].name \in DOMAIN importStates
       /\ importStates[files[i].name].status = "success"

\* a callback that runs again for a file that is already imported
uploadCallbackAgain(acc, file, batch) ==
  LET cleanTableName == tableNames[file.name]
      issue == tableNameIssue(cleanTableName)
  IN  IF issue # ""
      THEN [acc EXCEPT
              !.errors = @ \cup {UploadError(file.name, issue)},
              !.states = updateImportState(@, file.name, "error", issue)]
      ELSE [acc EXCEPT
              !.states = updateImportState(@, file.name, "processing",
                                           "keep"),
              !.jobs = Append(@, Job(batch, file, cleanTableName))]

\* FileImporter.tsx:427-455: one callback of files.map up to its first
\* await, on what the callbacks before it left (acc); importStates and
\* tableNames are those of the render the handler belongs to
uploadCallback(acc, file, batch) ==
  LET state == IF file.name \in DOMAIN importStates
               THEN importStates[file.name].status ELSE "undefined"
      cleanTableName == tableNames[file.name]
      issue == tableNameIssue(cleanTableName)
  IN  IF state = "success" THEN acc
      ELSE IF issue # ""
      THEN [acc EXCEPT
              !.errors = @ \cup {UploadError(file.name, issue)},
              !.states = updateImportState(@, file.name, "error", issue)]
      ELSE [acc EXCEPT
              !.states = updateImportState(@, file.name, "processing",
                                           "keep"),
              !.jobs = Append(@, Job(batch, file, cleanTableName))]

\* files.map(...) at 426: every callback runs to its first await, in the
\* order of the queue
RECURSIVE uploadCallbacks(_, _, _)
uploadCallbacks(acc, i, batch) ==
  IF i > Len(files) THEN acc
  ELSE uploadCallbacks(uploadCallback(acc, files[i], batch), i + 1, batch)

\* what the import component leaves alone of the store
jobFrame == <<sessionVars, connectionList, queryHistory, isExecuting,
              tabVars, isLoading, isLoadingExternalConnection, calls,
              lastDone, booted, released, countVars, nFiles>>

\* FileImporter.tsx:421-504, from the click to the await at 492; the
\* button is there while the queue holds a file and enabled while
\* isUploading is false (675-679).  When no callback is suspended the
\* await resolves at once and 494-502 follow.
handleFileUpload(batch) ==
  /\ files # <<>>
  /\ ~isUploading
  /\ batch \notin DOMAIN batches
  /\ \A b \in 1 .. batch - 1 : b \in DOMAIN batches
  /\ LET acc == uploadCallbacks([states |-> importStates, errors |-> {},
                                 jobs |-> <<>>], 1, batch)
     IN  /\ importStates' = acc.states
         /\ errors' = acc.errors
         /\ IF acc.jobs = <<>>
            THEN /\ isUploading' = FALSE
                 /\ files' = IF allFilesSuccess THEN <<>> ELSE files
                 /\ tableNames' = IF allFilesSuccess THEN <<>> ELSE tableNames
                 /\ UNCHANGED <<batches, jobs>>
            ELSE /\ isUploading' = TRUE
                 /\ jobs' = jobs \o acc.jobs
                 /\ batches' = spread(batches,
                                      [b \in {batch} |-> allFilesSuccess])
                 /\ UNCHANGED <<files, tableNames>>
  /\ UNCHANGED <<nFiles, importFrame>>

\* FileImporter.tsx:463-482 and 492-503: job j ends, with success when
\* message is NoError; when it is the last of its batch the await at 492
\* resolves and the handler runs to its end
jobEnds(j, message) ==
  LET job == jobs[j]
      last == \A i \in DOMAIN jobs : i # j => jobs[i].batch # job.batch
  IN  /\ importStates' =
           IF message = NoError
           THEN updateImportState(importStates, job.name, "success", "keep")
           ELSE updateImportState(importStates, job.name, "error", message)
      /\ errors' = IF message = NoError THEN errors
                   ELSE errors \cup {UploadError(job.name, message)}
      /\ jobs' = spliceOut(jobs, j - 1)
      /\ IF last
         THEN /\ batches' = without(batches, job.batch)
              /\ isUploading' = FALSE
              /\ files' = IF batches[job.batch] THEN <<>> ELSE files
              /\ tableNames' = IF batches[job.batch] THEN <<>> ELSE tableNames
         ELSE UNCHANGED <<batches, isUploading, files, tableNames>>

\* a job goes on to its next await
jobGoesOn(j, next) ==
  /\ jobs' = [jobs EXCEPT ![j] = next]
  /\ UNCHANGED <<files, tableNames, importStates, isUploading, errors,
                 batches>>

\* FileImporter.tsx:461-462 with index.ts:544-551 and 573-575: the file's
\* bytes are there (ok) or reading them failed; with them importFile is
\* called, which fails at once without a backend and then refreshes the
\* schema before it throws
jobRead(j, ok) ==
  /\ j \in DOMAIN jobs
  /\ jobs[j].pc = "read"
  /\ UNCHANGED <<jobFrame, catalog>>
  /\ IF ~ok
     THEN /\ jobEnds(j, ErrRead)
          /\ UNCHANGED <<databases, error, isLoadingDbTablesFetch>>
     ELSE IF db = NullHandle \/ connection = NullHandle
     THEN /\ fetchStart
          /\ IF fetchSuspends
             THEN jobGoesOn(j, [jobs[j] EXCEPT !.pc = "refresh",
                                               !.rconn = connection,
                                               !.failure = ErrNotInitialized])
             ELSE jobEnds(j, ErrNotInitialized)
     ELSE /\ jobGoesOn(j, [jobs[j] EXCEPT !.pc = "import",
                                          !.conn = connection])
          /\ UNCHANGED <<databases, error, isLoadingDbTablesFetch>>

\* an importFile that refreshes the schema only after a success
jobImportedQuiet(j, ok) ==
  /\ j \in DOMAIN jobs
  /\ jobs[j].pc = "import"
  /\ ok => queryable(jobs[j].conn)
  /\ UNCHANGED jobFrame
  /\ catalog' = IF ok /\ jobs[j].ext # "duckdb"
                THEN catalog \cup {<<jobs[j].conn, asString(jobs[j].tableName)>>}
                ELSE catalog
  /\ IF ok
     THEN /\ fetchStart
          /\ IF fetchSuspends
             THEN jobGoesOn(j, [jobs[j] EXCEPT !.pc = "refresh",
                                               !.rconn = connection])
             ELSE jobEnds(j, NoError)
     ELSE /\ jobEnds(j, ErrImport)
          /\ UNCHANGED <<databases, error, isLoadingDbTablesFetch>>

\* index.ts:549-575: the backend has dropped and registered the file,
\* created (or attached) and verified the table (ok), or one of these
\* failed; either way the schema is refreshed (556, 572, 574).  These
\* awaits are taken as one step: between them importFile neither reads nor
\* writes the store.
jobImported(j, ok) ==
  /\ j \in DOMAIN jobs
  /\ jobs[j].pc = "import"
  /\ ok => queryable(jobs[j].conn)
  /\ UNCHANGED jobFrame
  /\ catalog' = IF ok /\ jobs[j].ext # "duckdb"
                THEN catalog \cup {<<jobs[j].conn, asString(jobs[j].tableName)>>}
                ELSE catalog
  /\ fetchStart
  /\ IF fetchSuspends
     THEN jobGoesOn(j, [jobs[j] EXCEPT !.pc = "refresh",
                                       !.rconn = connection,
                                       !.failure = IF ok THEN NoError
                                                   ELSE ErrImport])
     ELSE jobEnds(j, IF ok THEN NoError ELSE ErrImport)

\* index.ts:556-557, 572 and 574-579: the refresh importFile awaits is
\* over, and importFile returns or throws
jobRefreshed(j, ok) ==
  /\ j \in DOMAIN jobs
  /\ jobs[j].pc = "refresh"
  /\ fetchFinish(jobs[j].rconn, ok)
  /\ jobEnds(j, jobs[j].failure)
  /\ UNCHANGED <<jobFrame, catalog>>

----------------------------------------------------------------------------
(* Specifications                                                          *)

\* The tab operations, and cleanup, on a store that was never connected.
NextTabs ==
  \/ \E type \in {"sql", "home"} : createTab(type, "Untitled Query", "")
  \/ \E tabId \in KnownTabIds : closeTab(tabId)
  \/ \E tabId \in TabIds : setActiveTab(tabId)
  \/ \E tabId \in KnownTabIds : updateTabQuery(tabId, "q")
  \/ \E tabId \in KnownTabIds : updateTabTitle(tabId, "T")
  \/ \E oldIndex, newIndex \in 0 .. Len(tabs) - 1 : moveTab(oldIndex, newIndex)
  \/ closeAllTabs
  \/ \E t \in CallIds : cleanup(t)

SpecTabs == Init /\ [][NextTabs]_vars

\* The tab sequence when moveTab is called with any index from 0 up to the
\* length of the sequence, the first index out of range.
NextMoves ==
  \/ createTab("sql", "Untitled Query", "")
  \/ \E tabId \in KnownTabIds : closeTab(tabId)
  \/ \E oldIndex, newIndex \in 0 .. Len(tabs) :
       Len(tabs) <= MaxTabs /\ moveTab(oldIndex, newIndex)

SpecMoves == Init /\ [][NextMoves]_vars

\* The descriptors the registry operations are called with.  A descriptor
\* added through the connection page (Connections.tsx:93-100) carries a
\* fresh UUID.
ConnUuids == {"c1", "c2"}
ConnNames == {"WASM", "a"}
ConnScopes == {"WASM", "External"}

PendingIds == {calls[t].desc.id : t \in {u \in CallIds : calls[u].op = "addConnection"}}
ListedIds == {connectionList[i].id : i \in DOMAIN connectionList}

NewDescriptors ==
  {Descriptor(id, name, scope, scope = "External") :
     id \in ConnUuids \ (ListedIds \cup PendingIds),
     name \in ConnNames, scope \in ConnScopes}

EditedDescriptors ==
  {Descriptor(id, name, scope, scope = "External") :
     id \in ConnUuids \cup {"WASM"}, name \in ConnNames, scope \in ConnScopes}

\* The registry operations, with the probes of addConnection in flight.
NextRegistry ==
  \/ \E t \in CallIds, c \in NewDescriptors : addConnection(t, c)
  \/ \E t \in CallIds, ok \in BOOLEAN : addConnectionProbed(t, ok)
  \/ \E c \in EditedDescriptors : updateConnection(c)
  \/ \E id \in ConnUuids \cup {"WASM"} : deleteConnection(id)

SpecRegistry == Init /\ [][NextRegistry]_vars

\* The registry when every probe that was sent is eventually answered: the
\* fetch of testExternalConnection (index.ts:316) settles, by a response
\* or by a rejection.
SpecRegistryLive ==
  /\ SpecRegistry
  /\ WF_vars(\E t \in CallIds, ok \in BOOLEAN : addConnectionProbed(t, ok))

\* the one Remote descriptor the session specifications register
RemoteDescriptors == {Descriptor("c1", "a", "External", hp) : hp \in BOOLEAN}

\* An embedded backend that answers by its tables: creating t fails when t
\* exists, dropping or reading it fails when it does not.
answers(conn, query) ==
  /\ queryable(conn)
  /\ query = 1 => <<conn, "t">> \notin catalog
  /\ query \in {2, 3} => <<conn, "t">> \in catalog

\* the Remote descriptor the history specification registers
ReachableDescriptor == Descriptor("c1", "a", "External", TRUE)

\* A remote endpoint that answers by the query text: it refuses query 4
\* and answers query 5 with a body that has no meta array.
endpoint(query) ==
  IF query = 4 THEN [ok |-> FALSE, body |-> NotJsonEnvelope]
  ELSE IF query = 5 THEN [ok |-> TRUE, body |-> NoMetaEnvelope]
  ELSE [ok |-> TRUE, body |-> GoodEnvelope]

\* the query texts that are submitted again
Rerun == {3}

\* The calls of the query path one after the other ("any sequence of
\* calls"): a call is made when no call is in flight.  The session is set
\* up (booted, a Remote descriptor registered) before the first query, if
\* at all, and switched between the two backends at any time; the backends
\* answer as answers and endpoint say.
NextHistory ==
  \/ \E t \in CallIds : NoCallInFlight /\ nFresh = 0 /\ initialize(t)
  \/ \E t \in CallIds, ok \in BOOLEAN : initializeBooted(t, ok)
  \/ \E t \in CallIds : refreshed(t, queryable(calls[t].conn))
  \/ \E t \in CallIds :
       /\ NoCallInFlight
       /\ nFresh = 0
       /\ ReachableDescriptor.id \notin ListedIds
       /\ addConnection(t, ReachableDescriptor)
  \/ \E t \in CallIds, ok \in BOOLEAN : addConnectionProbed(t, ok)
  \/ \E t \in CallIds, id \in {"WASM", "c1"} :
       NoCallInFlight /\ isInitialized /\ setCurrentConnection(t, id)
  \/ \E t \in CallIds, query \in {nFresh + 1} \cup (Rerun \cap (1 .. nFresh)) :
       NoCallInFlight /\ executeQuery(t, query, NoTab)
  \/ \E t \in CallIds :
       executeQueryAnswered(t, answers(calls[t].conn, calls[t].query))
  \/ \E t \in CallIds : executeQueryResponded(t, endpoint(calls[t].query))
  \/ NoCallInFlight /\ clearHistory

SpecHistory == Init /\ [][NextHistory]_vars

\* Single executeQuery calls, with or without a tab, on every session the
\* interface can set up one call after the other: not booted, booted,
\* switched to a Remote descriptor with or without host and port.  The
\* backends answer or fail as the environment decides.
NextQuery ==
  \/ \E t \in CallIds : NoCallInFlight /\ initialize(t)
  \/ \E t \in CallIds, ok \in BOOLEAN : initializeBooted(t, ok)
  \/ \E t \in CallIds, ok \in BOOLEAN : refreshed(t, ok)
  \/ \E t \in CallIds, c \in RemoteDescriptors :
       /\ NoCallInFlight
       /\ c.id \notin ListedIds
       /\ addConnection(t, c)
  \/ \E t \in CallIds, ok \in BOOLEAN : addConnectionProbed(t, ok)
  \/ \E t \in CallIds, id \in {"WASM", "c1"} :
       NoCallInFlight /\ isInitialized /\ setCurrentConnection(t, id)
  \/ \E t \in CallIds, query \in {1, 4}, tabId \in {NoTab, HomeId} :
       NoCallInFlight /\ executeQuery(t, query, tabId)
  \/ \E t \in CallIds, ok \in BOOLEAN : executeQueryAnswered(t, ok)
  \/ \E t \in CallIds, response \in HttpResponses :
       executeQueryResponded(t, response)

SpecQuery == Init /\ [][NextQuery]_vars

\* what the user submits next: the next files not yet submitted, alone,
\* two at a time or along with a file that is refused, or a refused file
\* alone
Submissions ==
  {<<ValidFile(n)>> : n \in {nFiles + 1} \cap (1 .. MaxFiles)}
  \cup {<<ValidFile(n), ValidFile(n + 1)>> :
          n \in {nFiles + 1} \cap (1 .. MaxFiles - 1)}
  \cup {<<UnsupportedFile, ValidFile(n)>> :
          n \in {nFiles + 1} \cap (1 .. MaxFiles)}
  \cup {<<OversizedFile>>}

QueuedNames == {files[i].name : i \in DOMAIN files}

\* the backend imports every file but file 3, which is corrupt
imports(conn, name) == queryable(conn) /\ name # 3

\* Uploads on a store that is booted while no job runs, or never: the user
\* submits files, starts uploads and retries failed files, while the jobs
\* go on in any order.  Files are always read, imported as imports says,
\* and a refresh succeeds on a handle that answers.
NextImport ==
  \/ \E newFiles \in Submissions : onFileChange(newFiles)
  \/ \E batch \in 1 .. MaxBatches : handleFileUpload(batch)
  \/ \E j \in 1 .. Len(jobs) : jobRead(j, TRUE)
  \/ \E j \in 1 .. Len(jobs) :
       jobImported(j, imports(jobs[j].conn, jobs[j].name))
  \/ \E j \in 1 .. Len(jobs) : jobRefreshed(j, queryable(jobs[j].rconn))
  \/ \E fileName \in QueuedNames :
       importStates[fileName].status = "error" /\ retryFileUpload(fileName)
  \/ \E t \in CallIds :
       NoCallInFlight /\ ~isInitialized /\ jobs = <<>> /\ initialize(t)
  \/ \E t \in CallIds, ok \in BOOLEAN : initializeBooted(t, ok)
  \/ \E t \in CallIds : refreshed(t, queryable(calls[t].conn))

SpecImport == Init /\ [][NextImport]_vars

\* the query texts the session specification submits
SessionQueries == {4}

\* The session controller with its calls interleaved: a handler runs from
\* one await to the next, and any call in flight may be the next to go on.
\* Boots, setup queries, closes, queries, probes and refreshes succeed or
\* fail as the environment decides.
NextSession ==
  \/ \E t \in CallIds : initialize(t)
  \/ \E t \in CallIds, ok \in BOOLEAN : initializeBooted(t, ok)
  \/ \E t \in CallIds, id \in {"WASM", "c1"} : setCurrentConnection(t, id)
  \/ \E t \in CallIds, ok \in BOOLEAN : setCurrentConnectionBooted(t, ok)
  \/ \E t \in CallIds, ok \in BOOLEAN : setCurrentConnectionSetUp(t, ok)
  \/ \E t \in CallIds : cleanup(t)
  \/ \E t \in CallIds, ok \in BOOLEAN : cleanupClosed(t, ok)
  \/ \E t \in CallIds, ok \in BOOLEAN : cleanupTerminated(t, ok)
  \/ \E t \in CallIds, query \in SessionQueries :
       executeQuery(t, query, NoTab)
  \/ \E t \in CallIds, ok \in BOOLEAN : executeQueryAnswered(t, ok)
  \/ \E t \in CallIds, response \in HttpResponses :
       executeQueryResponded(t, response)
  \/ \E t \in CallIds : fetchDatabasesAndTablesInfo(t)
  \/ \E t \in CallIds, ok \in BOOLEAN : refreshed(t, ok)
  \/ \E t \in CallIds :
       /\ ReachableDescriptor.id \notin ListedIds \cup PendingIds
       /\ addConnection(t, ReachableDescriptor)
  \/ \E t \in CallIds, ok \in BOOLEAN : addConnectionProbed(t, ok)

SpecSession == Init /\ [][NextSession]_vars

\* The life of a session with the calls made one after the other: a call
\* is made when no call is in flight.  The store is booted by either
\* handler and torn down; a tab is opened and a table created in between,
\* so that a teardown has something to reset.  Boots, setup queries,
\* closes and refreshes succeed or fail as the environment decides.
NextLifecycle ==
  \/ \E t \in CallIds : NoCallInFlight /\ initialize(t)
  \/ \E t \in CallIds, ok \in BOOLEAN : initializeBooted(t, ok)
  \/ \E t \in CallIds : NoCallInFlight /\ setCurrentConnection(t, "WASM")
  \/ \E t \in CallIds, ok \in BOOLEAN : setCurrentConnectionBooted(t, ok)
  \/ \E t \in CallIds, ok \in BOOLEAN : setCurrentConnectionSetUp(t, ok)
  \/ \E t \in CallIds : NoCallInFlight /\ cleanup(t)
  \/ \E t \in CallIds, ok \in BOOLEAN : cleanupClosed(t, ok)
  \/ \E t \in CallIds, ok \in BOOLEAN : cleanupTerminated(t, ok)
  \/ NoCallInFlight /\ createTab("sql", "Untitled Query", "")
  \/ \E t \in CallIds : NoCallInFlight /\ executeQuery(t, 1, NoTab)
  \/ \E t \in CallIds :
       executeQueryAnswered(t, answers(calls[t].conn, calls[t].query))
  \/ \E t \in CallIds, ok \in BOOLEAN : refreshed(t, ok)

SpecLifecycle == Init /\ [][NextLifecycle]_vars

\* Queries run for a tab or for the caller, one call after the other, on
\* the embedded backend or through a Remote descriptor, while tabs are
\* opened.  The backends answer as answers and endpoint say.
NextResults ==
  \/ \E t \in CallIds : NoCallInFlight /\ initialize(t)
  \/ \E t \in CallIds : initializeBooted(t, TRUE)
  \/ \E t \in CallIds : refreshed(t, queryable(calls[t].conn))
  \/ \E t \in CallIds :
       /\ NoCallInFlight
       /\ ReachableDescriptor.id \notin ListedIds
       /\ addConnection(t, ReachableDescriptor)
  \/ \E t \in CallIds : addConnectionProbed(t, TRUE)
  \/ \E t \in CallIds, id \in {"WASM", "c1"} :
       NoCallInFlight /\ isInitialized /\ setCurrentConnection(t, id)
  \/ NoCallInFlight /\ createTab("sql", "Untitled Query", "")
  \/ \E t \in CallIds, query \in {1, 4}, tabId \in {NoTab} \cup TabIds :
       NoCallInFlight /\ executeQuery(t, query, tabId)
  \/ \E t \in CallIds :
       executeQueryAnswered(t, answers(calls[t].conn, calls[t].query))
  \/ \E t \in CallIds : executeQueryResponded(t, endpoint(calls[t].query))

SpecResults == Init /\ [][NextResults]_vars

\* The bodies a remote endpoint answers with: no, one or two columns, two
\* of them also of one name, over rows that hold fewer values than there
\* are columns, as many, or more; with a row count or without; and the
\* bodies that do not parse or lack their meta array.
ShapedMetas ==
  {<<>>, <<[name |-> "x", type |-> "Int32"]>>,
   <<[name |-> "x", type |-> "Int32"], [name |-> "y", type |-> "Utf8"]>>,
   <<[name |-> "x", type |-> "Int32"], [name |-> "x", type |-> "Utf8"]>>}

ShapedData == {<<>>, <<<<1>>>>, <<<<1, 2, 3>>, <<>>>>}

ShapedEnvelopes ==
  {[parses |-> TRUE, hasMeta |-> TRUE, hasData |-> TRUE, meta |-> m,
    data |-> d, rows |-> n] : m \in ShapedMetas, d \in ShapedData,
                              n \in {0, 1}}
  \cup {NoMetaEnvelope, NotJsonEnvelope}

ShapedResponses ==
  {[ok |-> FALSE, body |-> NotJsonEnvelope]}
  \cup {[ok |-> TRUE, body |-> e] : e \in ShapedEnvelopes}

\* Queries on the embedded backend and through a Remote descriptor, for
\* the home tab or for the caller, one call after the other; the embedded
\* backend answers or rejects, the endpoint answers with any of the
\* bodies above or refuses.
NextShapes ==
  \/ \E t \in CallIds : NoCallInFlight /\ initialize(t)
  \/ \E t \in CallIds : initializeBooted(t, TRUE)
  \/ \E t \in CallIds : refreshed(t, queryable(calls[t].conn))
  \/ \E t \in CallIds :
       /\ NoCallInFlight
       /\ ReachableDescriptor.id \notin ListedIds
       /\ addConnection(t, ReachableDescriptor)
  \/ \E t \in CallIds : addConnectionProbed(t, TRUE)
  \/ \E t \in CallIds, id \in {"WASM", "c1"} :
       NoCallInFlight /\ isInitialized /\ setCurrentConnection(t, id)
  \/ \E t \in CallIds, query \in {1, 4}, tabId \in {NoTab, HomeId} :
       NoCallInFlight /\ executeQuery(t, query, tabId)
  \/ \E t \in CallIds, ok \in BOOLEAN : executeQueryAnswered(t, ok)
  \/ \E t \in CallIds, response \in ShapedResponses :
       executeQueryResponded(t, response)

SpecShapes == Init /\ [][NextShapes]_vars

\* Schema refreshes over an embedded backend whose table t is created and
\* dropped, one call after the other.  A refresh succeeds, fails at the
\* enumeration of the databases, or fails at the introspection of a table.
NextSchema ==
  \/ \E t \in CallIds : NoCallInFlight /\ initialize(t)
  \/ \E t \in CallIds : initializeBooted(t, TRUE)
  \/ \E t \in CallIds, query \in {1, 2} :
       NoCallInFlight /\ executeQuery(t, query, NoTab)
  \/ \E t \in CallIds :
       executeQueryAnswered(t, answers(calls[t].conn, calls[t].query))
  \/ \E t \in CallIds : NoCallInFlight /\ fetchDatabasesAndTablesInfo(t)
  \/ \E t \in CallIds, ok \in BOOLEAN : refreshed(t, ok)
  \/ \E t \in CallIds : refreshedTableFailed(t)

SpecSchema == Init /\ [][NextSchema]_vars

\* The operations that refresh the schema, one call after the other on the
\* embedded backend: a statement that creates table t, deleteTable,
\* setCurrentConnection and the import of a file.  The backend answers as
\* answers and imports say; every refresh succeeds or fails, at the
\* enumeration of the databases or at a table.
NextRefresh ==
  \/ \E t \in CallIds : NoCallInFlight /\ jobs = <<>> /\ initialize(t)
  \/ \E t \in CallIds : initializeBooted(t, TRUE)
  \/ \E t \in CallIds :
       NoCallInFlight /\ jobs = <<>> /\ setCurrentConnection(t, "WASM")
  \/ \E t \in CallIds : setCurrentConnectionBooted(t, TRUE)
  \/ \E t \in CallIds : setCurrentConnectionSetUp(t, TRUE)
  \/ \E t \in CallIds, tabId \in {NoTab, HomeId} :
       NoCallInFlight /\ jobs = <<>> /\ executeQuery(t, 1, tabId)
  \/ \E t \in CallIds :
       executeQueryAnswered(t, answers(calls[t].conn, calls[t].query))
  \/ \E t \in CallIds :
       NoCallInFlight /\ jobs = <<>> /\ deleteTable(t, "t")
  \/ \E t \in CallIds, ok \in BOOLEAN : deleteTableDropped(t, ok)
  \/ \E t \in CallIds, ok \in BOOLEAN : refreshed(t, ok)
  \/ \E t \in CallIds : refreshedTableFailed(t)
  \/ NoCallInFlight /\ nFiles = 0 /\ onFileChange(<<ValidFile(1)>>)
  \/ NoCallInFlight /\ handleFileUpload(1)
  \/ \E j \in 1 .. Len(jobs) : jobRead(j, TRUE)
  \/ \E j \in 1 .. Len(jobs) :
       jobImported(j, imports(jobs[j].conn, jobs[j].name))
  \/ \E j \in 1 .. Len(jobs), ok \in BOOLEAN : jobRefreshed(j, ok)

SpecRefresh == Init /\ [][NextRefresh]_vars

\* The calls that boot the embedded backend, interleaved: initialize and
\* setCurrentConnection("WASM") are called at any time, also while a call
\* is in flight, and every boot, setup and refresh succeeds or fails.
NextBoot ==
  \/ \E t \in CallIds : initialize(t)
  \/ \E t \in CallIds, ok \in BOOLEAN : initializeBooted(t, ok)
  \/ \E t \in CallIds : setCurrentConnection(t, "WASM")
  \/ \E t \in CallIds, ok \in BOOLEAN : setCurrentConnectionBooted(t, ok)
  \/ \E t \in CallIds, ok \in BOOLEAN : setCurrentConnectionSetUp(t, ok)
  \/ \E t \in CallIds, ok \in BOOLEAN : refreshed(t, ok)

SpecBoot == Init /\ [][NextBoot]_vars

\* A session up to its teardown.  A tab is opened first; then initialize,
\* executeQuery, a schema refresh and cleanup are called in any
\* interleaving, as long as no cleanup has been called: once one has, no
\* operation is invoked any more and only the calls in flight go on.  The
\* reset of a cleanup closes the opened tab, so that the session-scoped
\* state is at its initial values only initially and after a cleanup.
Invocable ==
  /\ tabs # <<HomeTab>>
  /\ \A t \in CallIds : calls[t].op # "cleanup"

NextTeardown ==
  \/ nUuid = 0 /\ createTab("sql", "Untitled Query", "")
  \/ \E t \in CallIds : Invocable /\ initialize(t)
  \/ \E t \in CallIds, ok \in BOOLEAN : initializeBooted(t, ok)
  \/ \E t \in CallIds : Invocable /\ executeQuery(t, 1, NoTab)
  \/ \E t \in CallIds, ok \in BOOLEAN : executeQueryAnswered(t, ok)
  \/ \E t \in CallIds : Invocable /\ fetchDatabasesAndTablesInfo(t)
  \/ \E t \in CallIds, ok \in BOOLEAN : refreshed(t, ok)
  \/ \E t \in CallIds : Invocable /\ cleanup(t)
  \/ \E t \in CallIds, ok \in BOOLEAN : cleanupClosed(t, ok)
  \/ \E t \in CallIds, ok \in BOOLEAN : cleanupTerminated(t, ok)

SpecTeardown == Init /\ [][NextTeardown]_vars

\* what the user submits to a queue that may hold a file more than once:
\* file 1, alone or after a file that is refused, for its size or on both
\* counts
QueueSubmissions ==
  {<<ValidFile(1)>>, <<OversizedFile, ValidFile(1)>>,
   <<File(0, "exe", TRUE), ValidFile(1)>>}

\* the table names the user types: nothing, a name with a hyphen, a name
\* with a blank before it
TypedNames == {<<>>, <<"a", "-">>, <<" ", "a">>}

\* The queue of the import component under every control the user has:
\* file 1 is submitted, more than once, the table name of
\* file 1 is typed over once while its input is enabled (226-228), files are
\* removed, uploads are started, cancelled and retried, while the jobs go
\* on in any order.  The store is booted before the first submission, or
\* never; files are always read and the backend imports them.
NextQueue ==
  \/ \E newFiles \in QueueSubmissions :
       NoCallInFlight /\ Len(files) < MaxQueued /\ onFileChange(newFiles)
  \/ \E text \in TypedNames :
       /\ 1 \in QueuedNames
       /\ 1 \in DOMAIN importStates
       /\ importStates[1].status \notin {"uploading", "processing"}
       /\ tableNames[1] = proposedTableName(1)
       /\ onTableNameChange(1, text)
  \/ \E fileName \in QueuedNames : removeFile(fileName)
  \/ \E batch \in 1 .. MaxBatches : handleFileUpload(batch)
  \/ isUploading /\ files # <<>> /\ handleCancelUpload
  \/ \E fileName \in QueuedNames :
       /\ fileName \in DOMAIN importStates
       /\ importStates[fileName].status = "error"
       /\ retryFileUpload(fileName)
  \/ \E j \in 1 .. Len(jobs) : jobRead(j, TRUE)
  \/ \E j \in 1 .. Len(jobs) :
       jobImported(j, imports(jobs[j].conn, jobs[j].name))
  \/ \E j \in 1 .. Len(jobs) : jobRefreshed(j, queryable(jobs[j].rconn))
  \/ \E t \in CallIds : NoCallInFlight /\ nFiles = 0 /\ initialize(t)
  \/ \E t \in CallIds : initializeBooted(t, TRUE)
  \/ \E t \in CallIds : refreshed(t, queryable(calls[t].conn))

SpecQueue == Init /\ [][NextQueue]_vars

\* The first upload of a queue and its cancellation: files are submitted,
\* the upload is started once, while every file is pending, and may be
\* cancelled while isUploading shows the button (696-705); the jobs go on
\* in any order.  No second upload follows, so that a job in flight while
\* isUploading is false is a job of a cancelled upload.
NextCancel ==
  \/ \E n \in {nFiles + 1} \cap (1 .. MaxQueued) : onFileChange(<<ValidFile(n)>>)
  \/ /\ jobs = <<>>
     /\ \A i \in DOMAIN files : importStates[files[i].name].status = "pending"
     /\ handleFileUpload(1)
  \/ isUploading /\ handleCancelUpload
  \/ \E j \in 1 .. Len(jobs) : jobRead(j, TRUE)
  \/ \E j \in 1 .. Len(jobs) :
       jobImported(j, imports(jobs[j].conn, jobs[j].name))
  \/ \E j \in 1 .. Len(jobs) : jobRefreshed(j, queryable(jobs[j].rconn))
  \/ \E t \in CallIds : NoCallInFlight /\ ~isInitialized /\ initialize(t)
  \/ \E t \in CallIds, ok \in BOOLEAN : initializeBooted(t, ok)
  \/ \E t \in CallIds : refreshed(t, queryable(calls[t].conn))

SpecCancel == Init /\ [][NextCancel]_vars

----------------------------------------------------------------------------
(* Properties of the tab set, checked under SpecTabs                       *)

\* C2: in every state reached by createTab, closeTab, closeAllTabs, moveTab
\* within range, setActiveTab, updateTabQuery, updateTabTitle and cleanup,
\* the tab set is not empty.
C2_TabSetNonEmpty == Len(tabs) >= 1

----------------------------------------------------------------------------
(* Properties of the connection registry, checked under SpecRegistry       *)

\* C6: an addConnection whose name is that of a listed descriptor records
\* the duplicate-name error, sends no probe (no call is left waiting for
\* one) and leaves connectionList as it was, whatever the scope.
C6_DuplicateNameRejected ==
  [][\A t \in CallIds, c \in NewDescriptors :
       (/\ addConnection(t, c)
        /\ \E i \in DOMAIN connectionList : connectionList[i].name = c.name)
       => /\ connectionList' = connectionList
          /\ error' = ErrDuplicateName
          /\ calls' = calls]_vars

\* a duplicate name was refused while a Remote descriptor is listed
C6_Witness ==
  /\ error = ErrDuplicateName
  /\ \E i \in DOMAIN connectionList : connectionList[i].scope = "External"

\* C7: no two descriptors of connectionList have the same name.
C7_NamesUnique ==
  \A i, j \in DOMAIN connectionList :
    connectionList[i].name = connectionList[j].name => i = j

\* C8: connectionList holds exactly one descriptor of scope WASM, and it
\* is the reserved descriptor as constructed.
C8_ReservedDescriptor ==
  /\ Cardinality({i \in DOMAIN connectionList :
                    connectionList[i].scope = "WASM"}) = 1
  /\ \E i \in DOMAIN connectionList : connectionList[i] = WasmDescriptor

\* C9: the call of addConnection with an External descriptor adds nothing
\* before its probe is answered; a probe answered with a failure adds
\* nothing and records the connection-test error; and an External
\* descriptor is appended only by the step that receives a successful
\* answer to its probe.
C9_ProbeBeforeAdd ==
  [][/\ \A t \in CallIds, c \in NewDescriptors :
          (addConnection(t, c) /\ c.scope = "External")
          => connectionList' = connectionList
     /\ \A t \in CallIds :
          addConnectionProbed(t, FALSE)
          => /\ connectionList' = connectionList
             /\ error' = ErrConnectionTest
     /\ (/\ Len(connectionList') > Len(connectionList)
         /\ connectionList'[Len(connectionList')].scope = "External")
        => \E t \in CallIds :
             /\ calls[t].pc = "probe"
             /\ calls'[t] = Idle
             /\ connectionList' = Append(connectionList, calls[t].desc)
             /\ error' = error]_vars

\* a probe failed after another one had succeeded
C9_Witness ==
  /\ error = ErrConnectionTest
  /\ \E i \in DOMAIN connectionList :
       connectionList[i].scope = "External" /\ connectionList[i].id \in ConnUuids

----------------------------------------------------------------------------
(* Properties of the history ledger, checked under SpecHistory             *)

\* C3: queryHistory never holds more than 15 entries, whatever queries
\* were run, with whatever outcome, on either backend, and whenever the
\* history was cleared.
C3_HistoryCapped == Len(queryHistory) <= HistoryCap

\* more texts than the ledger holds were run, and the ledger is full
C3_Witness ==
  /\ nFresh > HistoryCap
  /\ Len(queryHistory) = HistoryCap
  /\ \E i \in DOMAIN queryHistory : queryHistory[i].error # NoError
  /\ \E i \in DOMAIN queryHistory : queryHistory[i].error = NoError

\* the entries of ledger h for texts other than query
OtherEntries(h, query) ==
  LET Other(item) == item.query # query
  IN  SelectSeq(h, Other)

\* the ledger after a step has the run of query in front, with an error
\* exactly if failed
InFront(query, failed) ==
  /\ queryHistory' # <<>>
  /\ queryHistory'[1].query = query
  /\ (queryHistory'[1].error # NoError) <=> failed

\* C4: queryHistory holds at most one entry per query text; the step that
\* completes an executeQuery(q) leaves an entry for q in front, with an
\* error exactly if that run failed; and a step that writes the ledger
\* keeps the other entries in their order (the oldest leave when the
\* ledger is full).
C4_OneEntryPerText ==
  /\ [](\A i, j \in DOMAIN queryHistory :
          queryHistory[i].query = queryHistory[j].query => i = j)
  /\ [][/\ \A t \in CallIds :
             /\ executeQueryAnswered(t, TRUE)
                => InFront(calls[t].query, FALSE)
             /\ executeQueryAnswered(t, FALSE)
                => InFront(calls[t].query, TRUE)
             /\ (calls[t].op = "executeQuery" /\ refreshed(t, TRUE))
                => InFront(calls[t].query, FALSE)
             /\ (calls[t].op = "executeQuery" /\ refreshed(t, FALSE))
                => InFront(calls[t].query, FALSE)
             /\ \A response \in HttpResponses :
                  executeQueryResponded(t, response)
                  => InFront(calls[t].query,
                             ~response.ok \/ malformed(response.body))
             /\ \A query \in 1 .. MaxFresh :
                  (executeQuery(t, query, NoTab) /\ calls' = calls)
                  => InFront(query, TRUE)
        /\ (queryHistory' # queryHistory /\ queryHistory' # <<>>)
           => LET query == queryHistory'[1].query
                  before == OtherEntries(queryHistory, query)
                  after == OtherEntries(queryHistory', query)
              IN  /\ Len(after) = Len(queryHistory') - 1
                  /\ Len(after) = IF Len(before) < HistoryCap - 1
                                  THEN Len(before) ELSE HistoryCap - 1
                  /\ after = SubSeq(before, 1, Len(after))]_vars

\* query 3 was run again when the ledger was full and failed this time:
\* its entry is in front, before the entry of the newest text
C4_Witness ==
  /\ Len(queryHistory) = HistoryCap
  /\ queryHistory[1].query = 3
  /\ queryHistory[1].error # NoError
  /\ queryHistory[2].query = nFresh
  /\ nFresh > HistoryCap

----------------------------------------------------------------------------
(* Properties of query execution, checked under SpecQuery                  *)

\* C5: an executeQuery call that failed, for whatever cause, did not
\* throw, and it produced a QueryResult with no columns, no rows and an
\* error: the value it returned or, with a tabId, the result it attached
\* to the tab.
C5_FailureAsData ==
  (lastDone.op = "executeQuery" /\ lastDone.failed)
  => /\ ~lastDone.threw
     /\ LET produced == lastDone.ret \o lastDone.shown
        IN  /\ produced # <<>>
            /\ \A i \in DOMAIN produced :
                 /\ produced[i].columns = <<>>
                 /\ produced[i].data = <<>>
                 /\ produced[i].error # NoError

----------------------------------------------------------------------------
(* Properties of the session, checked under SpecSession                    *)

\* C10: whenever currentConnection is set, either the handle is set and
\* answers queries, or the handle is null and the session error is set.
C10_ActiveSessionLive ==
  currentConnection # NoConnection
  => \/ queryable(connection)
     \/ connection = NullHandle /\ error # NoError

----------------------------------------------------------------------------
(* Properties of the import component, checked under SpecImport            *)

\* C1: at no instant are more than MAX_CONCURRENT_UPLOADS import jobs in
\* the processing state, and at no instant are more than that many
\* importFile calls in flight.
C1_ConcurrencyCap ==
  /\ Cardinality({k \in DOMAIN importStates :
                    importStates[k].status = "processing"})
       <= MAX_CONCURRENT_UPLOADS
  /\ Cardinality({j \in DOMAIN jobs : jobs[j].pc \in {"import", "refresh"}})
       <= MAX_CONCURRENT_UPLOADS

\* C11: the step at which the boot of an initialize call fails leaves
\* isInitialized false, db and connection null, isLoading false and the
\* initialization error in the session error; and an initialize called on
\* an uninitialized store starts a boot (a later call retries).
C11_FailedBootUninitialized ==
  [][\A t \in CallIds :
       /\ initializeBooted(t, FALSE)
          => /\ isInitialized' = FALSE
             /\ db' = NullHandle
             /\ connection' = NullHandle
             /\ isLoading' = FALSE
             /\ error' = ErrInit
             /\ calls'[t] = Idle
       /\ (initialize(t) /\ ~isInitialized)
          => /\ calls'[t].op = "initialize"
             /\ calls'[t].pc = "boot"]_vars

\* an initialize failed to boot while a handle had been booted before: the
\* store holds no handle, and a second initialize is waiting for its boot
C11_Witness ==
  /\ booted >= 1
  /\ db = NullHandle
  /\ connection = NullHandle
  /\ ~isInitialized
  /\ \E t \in CallIds : calls[t].op = "initialize" /\ calls[t].pc = "boot"
  /\ released = {}

\* C12: a setCurrentConnection that fails records its error and leaves the
\* session as it was before the call.  A call that fails at once (unknown
\* id, no handle for a Remote descriptor) or at its boot changes none of
\* currentConnection, db, connection and isInitialized; a call whose setup
\* queries fail had found the store uninitialized (841) and booted a
\* handle of its own, which is therefore not left installed.
C12_FailedConnectUntouched ==
  [][\A t \in CallIds :
       /\ \A id \in {"WASM", "c1"} :
            LET found == getConnection(id)
                unknown == found = 0
                boots == connectionList[found].scope = "WASM" /\ ~isInitialized
            IN  /\ (setCurrentConnection(t, id) /\ unknown)
                   => /\ UNCHANGED sessionVars
                      /\ error' = ErrNotFound
                /\ (/\ setCurrentConnection(t, id)
                    /\ ~unknown
                    /\ ~boots
                    /\ connection = NullHandle)
                   => /\ UNCHANGED sessionVars
                      /\ error' = ErrNoHandle
       /\ setCurrentConnectionBooted(t, FALSE)
          => /\ UNCHANGED sessionVars
             /\ error' = ErrBoot
       /\ setCurrentConnectionSetUp(t, FALSE)
          => /\ error' = ErrSetup
             /\ db' # calls[t].h
             /\ connection' # calls[t].h
             /\ currentConnection' = currentConnection]_vars

\* C13: a setCurrentConnection to a Remote descriptor that finds a handle
\* in the store keeps that handle (db, connection and isInitialized as
\* they were, nothing booted, nothing released) and makes the descriptor
\* the active one; and an executeQuery started while the active descriptor
\* is Remote goes to the HTTP request (or fails for want of host and port)
\* and never to the embedded handle, whose tables the response leaves alone.
C13_RemoteRouting ==
  [][\A t \in CallIds :
       /\ \A id \in {"c1"} :
            LET found == getConnection(id)
            IN  (/\ setCurrentConnection(t, id)
                 /\ found # 0
                 /\ connectionList[found].scope = "External"
                 /\ connection # NullHandle)
                => /\ connection' = connection
                   /\ db' = db
                   /\ isInitialized' = isInitialized
                   /\ booted' = booted
                   /\ released' = released
                   /\ currentConnection' = connectionList[found]
       /\ \A query \in SessionQueries :
            (executeQuery(t, query, NoTab) /\ currentConnection.scope = "External")
            => /\ calls'[t].pc # "query"
               /\ IF currentConnection.hostport
                  THEN calls'[t].op = "executeQuery" /\ calls'[t].pc = "fetch"
                  ELSE calls'[t] = Idle /\ error' = ErrHostPort
               /\ catalog' = catalog
       /\ \A response \in HttpResponses :
            executeQueryResponded(t, response) => catalog' = catalog]_vars

\* a query is waiting for the HTTP response while the store holds a handle
\* that answers and the active descriptor is the Remote one
C13_Witness ==
  /\ currentConnection = ReachableDescriptor
  /\ queryable(connection)
  /\ \E t \in CallIds :
       /\ calls[t].op = "executeQuery"
       /\ calls[t].pc = "fetch"
       /\ calls[t].cc = ReachableDescriptor

----------------------------------------------------------------------------
(* Properties of the session's life, checked under SpecLifecycle           *)

\* the session-scoped state at its initial values
TornDown ==
  /\ db = NullHandle
  /\ connection = NullHandle
  /\ ~isInitialized
  /\ databases = <<>>
  /\ queryHistory = <<>>
  /\ tabs = <<HomeTab>>
  /\ activeTabId = HomeId
  /\ currentConnection = NoConnection

C15_ReconnectAfterTeardown ==
  [][\A t \in CallIds :
       /\ (setCurrentConnection(t, "WASM") /\ TornDown)
          => calls'[t].op = "setCurrentConnection" /\ calls'[t].pc = "boot"
       /\ setCurrentConnectionBooted(t, TRUE)
          => /\ calls'[t].h \notin released \cup {NullHandle, db, connection}
             /\ connection' = calls'[t].h
             /\ isInitialized'
       /\ setCurrentConnectionSetUp(t, TRUE)
          => /\ calls'[t].pc = "refresh"
             /\ calls'[t].conn = calls[t].h
             /\ connection' = calls[t].h
       /\ (calls[t].op = "setCurrentConnection" /\ refreshed(t, TRUE))
          => /\ isInitialized'
             /\ connection' = calls[t].conn
             /\ queryable(connection')
             /\ db' # NullHandle
             /\ currentConnection' = WasmDescriptor
             /\ databases' = fetchWasmDatabases(calls[t].conn)
             /\ databases' # <<>>
             /\ calls'[t] = Idle]_vars

\* after a teardown that released the first backend, a
\* setCurrentConnection("WASM") has booted and installed a second one and
\* waits for the refresh over it
C15_Witness ==
  /\ released # {}
  /\ isInitialized
  /\ connection \notin released \cup {NullHandle}
  /\ currentConnection = WasmDescriptor
  /\ \E t \in CallIds :
       /\ calls[t].op = "setCurrentConnection"
       /\ calls[t].pc = "refresh"
       /\ calls[t].conn = connection

----------------------------------------------------------------------------
(* Properties of query execution, checked under SpecHistory                *)

\* C16: of the query texts, "CREATE t" (1) and " drop t" (2) start with a
\* data-definition keyword once leading white space is trimmed and case is
\* ignored; the others are SELECTs.  The step at which executeQuery
\* succeeds with one of the two starts one schema refresh (on the embedded
\* backend the call now waits for it; with a Remote descriptor active the
\* refresh has already cleared the snapshot), and the call ends when that
\* refresh does, starting no other.  With any other text the call ends at
\* that step and nothing of a refresh is written.
C16_RefreshOnDdl ==
  [][\A t \in CallIds :
       LET ddl == calls[t].query \in {1, 2}
           remote == currentConnection.scope = "External"
           succeeds ==
             \/ executeQueryAnswered(t, TRUE)
             \/ \E response \in HttpResponses :
                  /\ response.ok
                  /\ ~malformed(response.body)
                  /\ executeQueryResponded(t, response)
       IN  /\ (succeeds /\ ddl /\ ~remote /\ connection # NullHandle)
              => /\ calls'[t].op = "executeQuery"
                 /\ calls'[t].pc = "refresh"
                 /\ isLoadingDbTablesFetch'
           /\ (succeeds /\ ddl /\ remote)
              => /\ calls'[t] = Idle
                 /\ databases' = <<>>
                 /\ error' = NoError
                 /\ ~isLoadingDbTablesFetch'
           /\ (succeeds /\ ~ddl)
              => /\ calls'[t] = Idle
                 /\ UNCHANGED <<databases, isLoadingDbTablesFetch, error>>
           /\ \A ok \in BOOLEAN :
                (calls[t].op = "executeQuery" /\ refreshed(t, ok))
                => /\ ddl
                   /\ calls'[t] = Idle]_vars

\* " drop t" has succeeded on the embedded backend, after "CREATE t" had,
\* and its call waits for the schema refresh
C16_Witness ==
  /\ \E t \in CallIds :
       /\ calls[t].op = "executeQuery"
       /\ calls[t].pc = "refresh"
       /\ calls[t].query = 2
  /\ Len(queryHistory) = 2
  /\ queryHistory[1] = [query |-> 2, error |-> NoError]
  /\ queryHistory[2] = [query |-> 1, error |-> NoError]

----------------------------------------------------------------------------
(* Properties of query results, checked under SpecResults                  *)

\* the tabs after the step are the tabs before it, but for the tab of the
\* given id, which shows the result
ShownOn(tabId, result) ==
  /\ Len(tabs') = Len(tabs)
  /\ \A i \in DOMAIN tabs :
       tabs'[i] = IF tabs[i].id = tabId
                  THEN [tabs[i] EXCEPT !.result = <<result>>]
                  ELSE tabs[i]

\* the call of slot t ends at this step and resolves to ret
Resolves(t, ret) ==
  /\ calls'[t] = Idle
  /\ lastDone'.op = "executeQuery"
  /\ lastDone'.query = calls[t].query
  /\ lastDone'.tabId = calls[t].tabId
  /\ ~lastDone'.failed
  /\ ~lastDone'.threw
  /\ lastDone'.ret = ret

\* the step at which the query of slot t succeeds with the given result
SucceedsWith(t, result) ==
  \/ executeQueryAnswered(t, TRUE)
     /\ result = resultToJSON(ArrowTable(calls[t].query))
  \/ \E response \in HttpResponses :
       /\ response.ok
       /\ ~malformed(response.body)
       /\ executeQueryResponded(t, response)
       /\ result = rawResultToJSON(response.body)

\* C17: the step at which an executeQuery succeeds with a tabId that names
\* a tab stores the result on that tab and leaves every other tab as it
\* was, and the call resolves to nothing; with no tabId the step leaves
\* every tab as it was and the call resolves to the result.  (The call
\* resolves at that step or, after a data-definition statement, when the
\* schema refresh ends, which changes no tab.)
C17_ResultToTabOrCaller ==
  [][\A t \in CallIds :
       LET tabId == calls[t].tabId
           Results == {resultToJSON(ArrowTable(calls[t].query)),
                       rawResultToJSON(GoodEnvelope)}
       IN  /\ \A result \in Results :
                SucceedsWith(t, result)
                => /\ tabId \in TabIds => ShownOn(tabId, result)
                   /\ tabId = NoTab => tabs' = tabs
                   /\ \/ Resolves(t, IF tabId = NoTab THEN <<result>> ELSE <<>>)
                      \/ /\ calls'[t].pc = "refresh"
                         /\ calls'[t].tabId = tabId
                         /\ calls'[t].res = <<result>>
                         /\ lastDone' = lastDone
           /\ \A ok \in BOOLEAN :
                (calls[t].op = "executeQuery" /\ refreshed(t, ok))
                => /\ tabs' = tabs
                   /\ Resolves(t, IF tabId = NoTab THEN calls[t].res ELSE <<>>)]_vars

\* a query run for a tab has succeeded: the call resolved to nothing, the
\* tab shows the result, and another tab still shows a different result of
\* an earlier run
C17_Witness ==
  /\ lastDone.op = "executeQuery"
  /\ ~lastDone.failed
  /\ lastDone.tabId # NoTab
  /\ lastDone.ret = <<>>
  /\ \E i, j \in DOMAIN tabs :
       /\ tabs[i].id = lastDone.tabId
       /\ tabs[i].result = lastDone.shown
       /\ tabs[i].result # <<>>
       /\ tabs[i].result[1].error = NoError
       /\ j # i
       /\ tabs[j].result # <<>>
       /\ tabs[j].result # tabs[i].result

\* a query run for the caller has succeeded: the call resolved to the
\* result, while a tab still shows the result of an earlier run
C17_WitnessCaller ==
  /\ lastDone.op = "executeQuery"
  /\ ~lastDone.failed
  /\ lastDone.tabId = NoTab
  /\ lastDone.ret # <<>>
  /\ lastDone.shown = <<>>
  /\ \E i \in DOMAIN tabs : tabs[i].result # <<>>

----------------------------------------------------------------------------
(* Properties of failing queries, checked under SpecQuery                  *)

\* after the step the ledger has in front the entry of query with the
\* message, the session error is the message and nothing is executing
FailureRecorded(query, message) ==
  /\ queryHistory' # <<>>
  /\ queryHistory'[1] = [query |-> query, error |-> message]
  /\ error' = message
  /\ message # NoError
  /\ isExecuting' = FALSE

\* C18: the step at which an executeQuery(q) fails, whatever the cause (no
\* valid handle, the embedded backend rejects the query, the Remote
\* descriptor has no host and port, the endpoint refuses, its body does
\* not parse), ends the call with the entry of q in front of queryHistory
\* carrying the error message, the session error equal to that message and
\* isExecuting false.
C18_FailureRecorded ==
  [][\A t \in CallIds :
       /\ \A query \in {1, 4}, tabId \in {NoTab, HomeId} :
            (executeQuery(t, query, tabId) /\ calls' = calls)
            => FailureRecorded(query,
                               IF currentConnection.scope = "External"
                               THEN ErrHostPort ELSE ErrInvalidConnection)
       /\ executeQueryAnswered(t, FALSE)
          => /\ FailureRecorded(calls[t].query, ErrQuery)
             /\ calls'[t] = Idle
       /\ \A response \in HttpResponses :
            (/\ executeQueryResponded(t, response)
             /\ ~response.ok \/ malformed(response.body))
            => /\ FailureRecorded(calls[t].query,
                                  IF ~response.ok THEN ErrHttp ELSE ErrParse)
               /\ calls'[t] = Idle]_vars

\* a query failed on a body that does not parse, after another text had
\* succeeded: its entry is in front with the message, which is also the
\* session error
C18_Witness ==
  /\ lastDone.op = "executeQuery"
  /\ lastDone.failed
  /\ Len(queryHistory) = 2
  /\ queryHistory[1] = [query |-> lastDone.query, error |-> ErrParse]
  /\ queryHistory[2].error = NoError
  /\ error = ErrParse
  /\ ~isExecuting

----------------------------------------------------------------------------
(* Properties of the schema refresh, checked under SpecSession             *)

\* C19: a fetchDatabasesAndTablesInfo called while the active descriptor
\* is Remote ends at once, with an empty snapshot, no error and the
\* loading flag off; it awaits nothing (no call is left in flight), so it
\* queries no backend.
C19_RemoteSnapshotEmpty ==
  [][\A t \in CallIds :
       (fetchDatabasesAndTablesInfo(t) /\ currentConnection.scope = "External")
       => /\ databases' = <<>>
          /\ error' = NoError
          /\ isLoadingDbTablesFetch' = FALSE
          /\ calls' = calls
          /\ catalog' = catalog]_vars

\* the Remote descriptor is active and the snapshot empty, while the
\* embedded backend under it has a database to list
C19_Witness ==
  /\ currentConnection = ReachableDescriptor
  /\ queryable(connection)
  /\ databases = <<>>
  /\ databases # fetchWasmDatabases(connection)
  /\ error = NoError
  /\ ~isLoadingDbTablesFetch
  /\ NoCallInFlight

\* C20: a schema refresh that fails, because its query fails or because
\* the store holds no valid handle, sets the schema error, leaves the
\* snapshot as it was and the loading flag off, and does not throw: the
\* call that awaited it runs to its end.
C20_FailedRefreshKeepsSnapshot ==
  [][\A t \in CallIds :
       /\ refreshed(t, FALSE)
          => /\ error' = ErrSchemaQuery
             /\ databases' = databases
             /\ isLoadingDbTablesFetch' = FALSE
             /\ calls'[t] = Idle
       /\ (/\ fetchDatabasesAndTablesInfo(t)
           /\ currentConnection.scope # "External"
           /\ ~validConnection(connection))
          => /\ error' = ErrSchemaInvalid
             /\ databases' = databases
             /\ isLoadingDbTablesFetch' = FALSE
             /\ calls' = calls]_vars

\* a refresh failed on its query while the store held a snapshot, which
\* is still there
C20_Witness ==
  /\ error = ErrSchemaQuery
  /\ databases # <<>>
  /\ ~isLoadingDbTablesFetch
  /\ NoCallInFlight

----------------------------------------------------------------------------
(* Properties of the schema refresh, checked under SpecSchema              *)

\* C21: a refresh in which the introspection of one table fails still
\* publishes a snapshot: the databases with their other tables.
C21_IntrospectionIsolated ==
  [][\A t \in CallIds :
       refreshedTableFailed(t)
       => \E failed \in tablesOf(calls[t].conn) :
            databases' = <<[name |-> "memory",
                            tables |-> tablesOf(calls[t].conn) \ {failed}]>>]_vars

----------------------------------------------------------------------------
(* The import queue                                                        *)

\* a file that submission refuses: its extension is not one of the five, or
\* it is over the size limit
Refused(file) ==
  \/ file.ext \notin {"csv", "json", "parquet", "arrow", "duckdb"}
  \/ file.oversized

MatchesPattern(text) ==
  /\ text # <<>>
  /\ \A i \in DOMAIN text : text[i] \in NameChars

\* C23: when an upload is started, a file that is not yet imported and
\* whose table name is empty or does not match the pattern gets status
\* error and no job; and every table name importFile was called with
\* matches the pattern.
C23_InvalidNameFailsFast ==
  /\ [][\A batch \in 1 .. MaxBatches :
          handleFileUpload(batch)
          => \A i \in DOMAIN files :
               (/\ importStates[files[i].name].status # "success"
                /\ ~MatchesPattern(tableNames[files[i].name]))
               => /\ importStates'[files[i].name].status = "error"
                  /\ \A j \in DOMAIN jobs' :
                       jobs'[j].name = files[i].name
                       => j \in DOMAIN jobs /\ jobs[j] = jobs'[j]]_vars
  /\ [](\A j \in DOMAIN jobs :
          jobs[j].pc # "read" => MatchesPattern(jobs[j].tableName))

\* a batch in flight in which no job fails: the backend is there, no file
\* of the queue is in error and file 3, which the backend rejects, is not
\* among the batch's jobs
BatchSucceeds(batch) ==
  /\ db # NullHandle /\ connection # NullHandle
  /\ \A i \in DOMAIN files :
       importStates[files[i].name].status \in {"processing", "success"}
  /\ \A k \in DOMAIN jobs : jobs[k].batch = batch => jobs[k].name # 3

\* C24: in a batch whose files all succeed, a schema refresh is started
\* only once the other jobs of the batch have completed: the job whose
\* import starts one is the last of its batch still in flight.
C24_OneRefreshPerBatch ==
  [][\A j \in DOMAIN jobs :
       (jobImported(j, TRUE) /\ BatchSucceeds(jobs[j].batch))
       => \A k \in DOMAIN jobs : k # j => jobs[k].batch # jobs[j].batch]_vars

\* what a refresh leaves behind right after it was started: it waits for
\* the backend, or it ended at once on a handle that is not there
RefreshAttempted ==
  \/ isLoadingDbTablesFetch /\ error = NoError
  \/ ~isLoadingDbTablesFetch /\ error = ErrSchemaInvalid

\* C25: every call of importFile starts a schema refresh, whether it finds
\* no backend, the backend imports the file or the backend fails; and when
\* the import failed the caller gets an error that starts with "Import
\* failed", which ends the file's job in error.
C25_ImportAlwaysRefreshes ==
  [][\A j \in DOMAIN jobs :
       /\ (jobRead(j, TRUE) /\ (db = NullHandle \/ connection = NullHandle))
          => /\ RefreshAttempted'
             /\ importStates'[jobs[j].name] =
                  [status |-> "error", error |-> ErrNotInitialized]
       /\ \A ok \in BOOLEAN :
            jobImported(j, ok)
            => /\ RefreshAttempted'
               /\ \/ /\ Len(jobs') = Len(jobs)
                     /\ jobs'[j].pc = "refresh"
                     /\ jobs'[j].failure = IF ok THEN NoError ELSE ErrImport
                  \/ /\ ~isLoadingDbTablesFetch'
                     /\ importStates'[jobs[j].name].status =
                          IF ok THEN "success" ELSE "error"
       /\ \A ok \in BOOLEAN :
            jobRefreshed(j, ok)
            => importStates'[jobs[j].name] =
                 IF jobs[j].failure = NoError
                 THEN [status |-> "success",
                       error |-> importStates[jobs[j].name].error]
                 ELSE [status |-> "error", error |-> jobs[j].failure]]_vars

\* the backend failed to import file 3, and the job waits for the refresh
\* that importFile awaits before it throws
C25_Witness ==
  \E j \in DOMAIN jobs :
    /\ jobs[j].name = 3
    /\ jobs[j].pc = "refresh"
    /\ jobs[j].failure = ErrImport
    /\ isLoadingDbTablesFetch

\* a step at which the last job of a batch ends, so that the handler that
\* started the batch runs to its end
BatchCompletes ==
  /\ DOMAIN batches' \subseteq DOMAIN batches
  /\ DOMAIN batches' # DOMAIN batches

\* C26: when a batch completes and every file of the queue has reached
\* success, files and tableNames are emptied; when a file has not, the
\* queue is kept as it is.
C26_QueueClearedOnSuccess ==
  [][BatchCompletes
     => IF \A i \in DOMAIN files :
             importStates'[files[i].name].status = "success"
        THEN files' = <<>> /\ tableNames' = <<>>
        ELSE files' = files /\ tableNames' = tableNames]_vars

\* the files for which a step has started a job
StartedNames == {jobs'[j].name : j \in Len(jobs) + 1 .. Len(jobs')}

\* C27: an upload that is started leaves every file whose status is
\* success as it is and starts no job for it, and it sets every file whose
\* status is pending or error to processing and starts a job for it (the
\* table names being valid).
C27_SuccessSkipped ==
  [][\A batch \in 1 .. MaxBatches :
       handleFileUpload(batch)
       => \A i \in DOMAIN files :
            LET name == files[i].name
            IN  /\ importStates[name].status = "success"
                   => /\ name \notin StartedNames
                      /\ importStates'[name] = importStates[name]
                /\ (/\ importStates[name].status \in {"pending", "error"}
                    /\ tableNameIssue(tableNames[name]) = "")
                   => /\ name \in StartedNames
                      /\ importStates'[name].status = "processing"]_vars

\* an upload was started again after file 1 was imported and file 3 had
\* failed: file 3 is processed once more, still with the error of its
\* first attempt, and no job runs for file 1
C27_Witness ==
  /\ 1 \in DOMAIN importStates /\ 3 \in DOMAIN importStates
  /\ importStates[1].status = "success"
  /\ importStates[3] = [status |-> "processing", error |-> ErrImport]
  /\ \E j \in DOMAIN jobs : jobs[j].name = 3 /\ jobs[j].pc = "read"
  /\ \A j \in DOMAIN jobs : jobs[j].name # 1

\* C28: a retry of a file sets its status to pending and its error to
\* none and changes the state of no other file, nor the queue; and the
\* upload started next sets a pending file (with a valid table name) to
\* processing and starts a job for it.
C28_RetryMakesPending ==
  [][/\ \A fileName \in QueuedNames :
          retryFileUpload(fileName)
          => /\ importStates'[fileName] =
                  [status |-> "pending", error |-> NoError]
             /\ DOMAIN importStates' = DOMAIN importStates
             /\ \A k \in DOMAIN importStates \ {fileName} :
                  importStates'[k] = importStates[k]
             /\ files' = files /\ tableNames' = tableNames /\ jobs' = jobs
     /\ \A batch \in 1 .. MaxBatches :
          handleFileUpload(batch)
          => \A i \in DOMAIN files :
               (/\ importStates[files[i].name] =
                     [status |-> "pending", error |-> NoError]
                /\ tableNameIssue(tableNames[files[i].name]) = "")
               => /\ \E j \in Len(jobs) + 1 .. Len(jobs') :
                       jobs'[j].name = files[i].name /\ jobs'[j].pc = "read"
                  /\ importStates'[files[i].name].status = "processing"]_vars

\* file 3 failed and was retried: it is pending without an error of its
\* own, while the error of the failed attempt is still listed
C28_Witness ==
  /\ 3 \in DOMAIN importStates
  /\ importStates[3] = [status |-> "pending", error |-> NoError]
  /\ UploadError(3, ErrImport) \in errors
  /\ \A j \in DOMAIN jobs : jobs[j].name # 3

\* C29: cancelling leaves the jobs as they are, and once an upload is
\* cancelled none of its jobs that still waits for its file's bytes goes
\* on to the backend.
C29_CancelStopsScheduling ==
  [][/\ handleCancelUpload => jobs' = jobs
     /\ \A j \in DOMAIN jobs :
          (~isUploading /\ jobRead(j, TRUE))
          => ~(Len(jobs') = Len(jobs) /\ jobs'[j].pc = "import")]_vars

\* C30: no two entries of the queue have the same file name, and no two
\* jobs that have reached the backend are for the same file name.
C30_FileNameIsKey ==
  /\ \A i, k \in DOMAIN files : files[i].name = files[k].name => i = k
  /\ \A j, k \in DOMAIN jobs :
       (/\ jobs[j].name = jobs[k].name
        /\ jobs[j].pc \in {"import", "refresh"}
        /\ jobs[k].pc \in {"import", "refresh"})
       => j = k

----------------------------------------------------------------------------
(* Further properties of the tab set                                       *)

\* the tabs of type home, in their order
HomeTabs(s) == LET IsHome(tab) == tab.type = "home" IN SelectSeq(s, IsHome)

\* C31: closeAllTabs leaves exactly the home tabs, unchanged and in their
\* order, and, when one is left, the active tab is the first of them.
C31_CloseAllKeepsHome ==
  [][closeAllTabs
     => /\ tabs' = HomeTabs(tabs)
        /\ tabs' # <<>> => activeTabId' = tabs'[1].id]_vars

\* C32: moveTab with both indices in range puts the moved tab at newIndex
\* and leaves the other tabs in their order; with an index out of range it
\* leaves the tab sequence as it is.
C32_MoveTabChecked ==
  [][\A oldIndex, newIndex \in 0 .. Len(tabs) :
       moveTab(oldIndex, newIndex)
       => IF oldIndex < Len(tabs) /\ newIndex < Len(tabs)
          THEN /\ Len(tabs') = Len(tabs)
               /\ tabs'[newIndex + 1] = tabs[oldIndex + 1]
               /\ spliceOut(tabs', newIndex) = spliceOut(tabs, oldIndex)
          ELSE tabs' = tabs]_vars

----------------------------------------------------------------------------
(* The shape of query results, checked under SpecShapes                    *)

\* a QueryResult with as many column types as columns, whose rows have
\* the columns as their keys
WellShaped(r) ==
  /\ Len(r.columns) = Len(r.columnTypes)
  /\ \A i \in DOMAIN r.data : DOMAIN r.data[i] = Range(r.columns)

\* every QueryResult the store holds or has handed out: those attached to
\* the tabs, the one the last call returned or showed, and those the calls
\* in flight are about to return
ProducedResults ==
  UNION {Range(tabs[i].result) : i \in DOMAIN tabs}
  \cup Range(lastDone.ret) \cup Range(lastDone.shown)
  \cup UNION {Range(calls[t].res) \cup Range(calls[t].shown) : t \in CallIds}

\* C33: every QueryResult produced, from an embedded result, from a remote
\* body or for a failure, has as many column types as columns, and each of
\* its rows has exactly the columns as its keys.
C33_ResultsWellShaped == \A r \in ProducedResults : WellShaped(r)

\* the home tab shows a remote result of two columns x and y whose rows
\* held three values and none
C33_Witness ==
  \E r \in Range(tabs[1].result) :
    /\ r.columns = <<"x", "y">>
    /\ Len(r.data) = 2
    /\ r.data[2].y = Undefined

----------------------------------------------------------------------------
(* Refreshes that fail, checked under SpecRefresh                          *)

\* the step at which the refresh that call t awaits fails
RefreshFails(t) == refreshed(t, FALSE) \/ refreshedTableFailed(t)

\* C34: when the refresh that an operation awaits fails, the operation
\* still completes: an executeQuery resolves without a failure, with its
\* result returned or attached to its tab and its history entry without
\* error; a setCurrentConnection ends with its descriptor active; a
\* deleteTable does not throw; and an importFile that succeeded ends its
\* job in success.
C34_FailedRefreshNonFatal ==
  [][/\ \A t \in CallIds :
          RefreshFails(t)
          => /\ calls[t].op = "executeQuery"
                => /\ lastDone'.op = "executeQuery"
                   /\ ~lastDone'.failed /\ ~lastDone'.threw
                   /\ IF calls[t].tabId = NoTab
                      THEN lastDone'.ret = calls[t].res /\ calls[t].res # <<>>
                      ELSE /\ lastDone'.shown = calls[t].shown
                           /\ \A i \in DOMAIN tabs' :
                                tabs'[i].id = calls[t].tabId
                                => tabs'[i].result = calls[t].res
                   /\ queryHistory'[1] =
                        [query |-> calls[t].query, error |-> NoError]
             /\ calls[t].op = "setCurrentConnection"
                => /\ currentConnection' = calls[t].desc
                   /\ currentConnection'.scope = "WASM"
                   /\ ~isLoading'
                   /\ error' \in {ErrSchemaQuery, ErrSchemaTable}
             /\ calls[t].op = "deleteTable"
                => /\ lastDone'.op = "deleteTable"
                   /\ ~lastDone'.failed /\ ~lastDone'.threw
     /\ \A j \in DOMAIN jobs :
          (jobRefreshed(j, FALSE) /\ jobs[j].failure = NoError)
          => importStates'[jobs[j].name].status = "success"]_vars

\* the statement that creates t has completed for the caller without a
\* failure, with its result and its history entry, while the session error
\* is that of the refresh that failed after it
C34_Witness ==
  /\ lastDone.op = "executeQuery"
  /\ lastDone.query = 1
  /\ ~lastDone.failed
  /\ lastDone.ret # <<>>
  /\ error \in {ErrSchemaQuery, ErrSchemaTable}
  /\ queryHistory # <<>>
  /\ queryHistory[1] = [query |-> 1, error |-> NoError]
  /\ NoCallInFlight

----------------------------------------------------------------------------
(* Booting, checked under SpecBoot                                         *)

\* C35: the embedded backend is booted at most once, and every handle
\* that was booted is the handle the store holds or has been released.
C35_BootedOnce ==
  /\ booted <= 1
  /\ \A h \in 1 .. booted :
       (h = db /\ h = connection) \/ h \in released

----------------------------------------------------------------------------
(* Further properties of the session, checked under SpecSession            *)

\* a schema refresh is suspended at its query
RefreshInFlight ==
  \/ \E t \in CallIds : calls[t].pc = "refresh"
  \/ \E j \in DOMAIN jobs : jobs[j].pc = "refresh"

\* C36: whenever no schema refresh is in flight and the active descriptor
\* is Remote, the snapshot is empty.
C36_RemoteSnapshotStaysEmpty ==
  (~RefreshInFlight /\ currentConnection.scope = "External")
  => databases = <<>>

----------------------------------------------------------------------------
(* The registry's loading flag, checked under SpecRegistryLive             *)

\* C37: whenever no addConnection call is in flight, the flag
\* isLoadingExternalConnection is eventually false.
C37_LoadingFlagReturns ==
  (\A t \in CallIds : calls[t].op # "addConnection")
    ~> ~isLoadingExternalConnection

----------------------------------------------------------------------------
(* The executing flag, checked under SpecSession                           *)

\* an executeQuery call is suspended at its backend's answer
QueryInFlight ==
  \E t \in CallIds :
    calls[t].op = "executeQuery" /\ calls[t].pc \in {"query", "fetch"}

\* C38: isExecuting is true exactly when some executeQuery call is awaiting
\* the answer of its backend.
C38_ExecutingWhileAwaited == isExecuting <=> QueryInFlight

----------------------------------------------------------------------------
(* The active tab, checked under SpecTabs                                  *)

\* C39: the active tab id is the id of a tab of the tab set, and no two
\* tabs of the tab set have the same id.
C39_ActiveTabExists ==
  /\ activeTabId \in TabIds
  /\ \A i, j \in DOMAIN tabs : tabs[i].id = tabs[j].id => i = j

----------------------------------------------------------------------------
(* The session after its teardown, checked under SpecTeardown              *)

\* C40: once a cleanup has reset the session (the opened tab is gone and
\* the state is at its initial values), every later step leaves the
\* session-scoped state reset: no handle, no snapshot, no history entry
\* and no error is written by a call that was in flight.
C40_TeardownIsFinal ==
  [][(TornDown /\ nUuid > 0) => (TornDown' /\ error' = NoError)]_vars

====
